---- MODULE Spec2Model ----
(***************************************************************************)
(* A model of the CREATE and REPLACE productions of sql-parse              *)
(* (src/src/create.rs, src/src/replace.rs) over the keyword table of       *)
(* src/src/keywords.rs.  The parser core (cursor, consumption primitives,  *)
(* recovery combinator), the span algebra and the collaborator parsers     *)
(* (expressions, data types, SELECT, the statement dispatcher) are not     *)
(* part of these three files; they are modelled from their contracts in    *)
(* spec.md sections 3, 4.1, 4.2, 4.3 and 6.                                *)
(***************************************************************************)
EXTENDS Integers, Sequences, FiniteSets, TLC

VARIABLES
    written,   \* the statement as it was written (kind, clauses) before tokenization
    mutation,  \* the single-token edit applied to the written statement (or none)
    toks,      \* the token stream handed to the parser
    base,      \* byte offset of the first token in the source text
    pos,       \* cursor: index of the current token (Len(toks)+1 is end-of-input)
    issues,    \* the issue sink
    pc,        \* position of the production in its code
    loc,       \* the local variables of the running production
    out,       \* what the production returned
    failures   \* history: how many failures the primitives have raised so far

vars == <<written, mutation, toks, base, pos, issues, pc, loc, out, failures>>

----------------------------------------------------------------------------
(* Keyword table                                                           *)

\* The entries of keywords![].
Keywords ==
    { "ABS", "ACCESSIBLE", "ACCOUNT", "ACOS", "ACTION", "ADD", "ADD_MONTHS",
      "ADDDATE", "ADDTIME", "ADMIN", "AFTER", "AGAINST", "AGGREGATE",
      "ALGORITHM", "ALL", "ALTER", "ALWAYS", "ANALYZE", "AND", "ANY", "AS",
      "ASC", "ASCII", "ASENSITIVE", "ASIN", "AT", "ATAN", "ATAN2", "ATOMIC",
      "AUTHORS", "AUTO", "AUTO_INCREMENT", "AUTOEXTEND_SIZE", "AVG",
      "AVG_ROW_LENGTH", "BACKUP", "BEFORE", "BEGIN", "BETWEEN", "BIGINT",
      "BIN", "BINARY", "BINLOG", "BIT", "BIT_LENGTH", "BLOB", "BLOCK", "BODY",
      "BOOL", "BOOLEAN", "BOTH", "BTREE", "BY", "BYTE", "CACHE", "CALL",
      "CASCADE", "CASCADED", "CASE", "CAST", "CATALOG_NAME", "CEIL",
      "CEILING", "CHAIN", "CHANGE", "CHANGED", "CHAR", "CHAR_LENGTH",
      "CHARACTER", "CHARACTER_LENGTH", "CHARSET", "CHECK", "CHECKPOINT",
      "CHECKSUM", "CHR", "CIPHER", "CLASS_ORIGIN", "CLIENT", "CLOB", "CLOSE",
      "COALESCE", "CODE", "COLLATE", "COLLATION", "COLUMN", "COLUMN_ADD",
      "COLUMN_CHECK", "COLUMN_CREATE", "COLUMN_DELETE", "COLUMN_GET",
      "COLUMN_NAME", "COLUMNS", "COMMENT", "COMMIT", "COMMITTED", "COMPACT",
      "COMPLETION", "COMPRESSED", "CONCAT", "CONCAT_WS", "CONCURRENT",
      "CONDITION", "CONNECTION", "CONSISTENT", "CONSTRAINT",
      "CONSTRAINT_CATALOG", "CONSTRAINT_NAME", "CONSTRAINT_SCHEMA",
      "CONTAINS", "CONTEXT", "CONTINUE", "CONTRIBUTORS", "CONV", "CONVERT",
      "CONVERT_TS", "COPY", "COS", "COT", "COUNT", "CPU", "CRC32", "CRC32C",
      "CREATE", "CROSS", "CUBE", "CURDATE", "CURRENT", "CURRENT_DATE",
      "CURRENT_POS", "CURRENT_ROLE", "CURRENT_TIME", "CURRENT_TIMESTAMP",
      "CURRENT_USER", "CURSOR", "CURSOR_NAME", "CURTIME", "CYCLE", "DATA",
      "DATABASE", "DATABASES", "DATAFILE", "DATE", "DATE_ADD", "DATE_FORMAT",
      "DATE_SUB", "DATEDIFF", "DATETIME", "DAY", "DAY_HOUR",
      "DAY_MICROSECOND", "DAY_MINUTE", "DAY_SECOND", "DAYNAME", "DAYOFMONTH",
      "DAYOFWEEK", "DAYOFYEAR", "DEALLOCATE", "DEC", "DECIMAL", "DECLARE",
      "DEFAULT", "DEFINER", "DEGREES", "DELAY_KEY_WRITE", "DELAYED", "DELETE",
      "DELETE_DOMAIN_ID", "DELIMITER", "DES_KEY_FILE", "DESC", "DESCRIBE",
      "DETERMINISTIC", "DIAGNOSTICS", "DIRECTORY", "DISABLE", "DISCARD",
      "DISK", "DISTINCT", "DISTINCTROW", "DIV", "DO", "DO_DOMAIN_IDS",
      "DOUBLE", "DROP", "DUAL", "DUMPFILE", "DUPLICATE", "DYNAMIC", "EACH",
      "ELSE", "ELSEIF", "ELSIF", "ELT", "EMPTY", "ENABLE", "ENCLOSED", "END",
      "ENDS", "ENGINE", "ENGINES", "ENUM", "ERROR", "ERRORS", "ESCAPE",
      "ESCAPED", "EVENT", "EVENTS", "EVERY", "EXAMINED", "EXCEPT",
      "EXCEPTION", "EXCHANGE", "EXCLUDE", "EXECUTE", "EXISTS", "EXIT", "EXP",
      "EXPANSION", "EXPIRE", "EXPLAIN", "EXPORT", "EXPORT_SET", "EXTENDED",
      "EXTENT_SIZE", "EXTRACTVALUE", "FALSE", "FAST", "FAULTS", "FEDERATED",
      "FETCH", "FIELD", "FIELDS", "FILE", "FIND_IN_SET", "FIRST", "FIXED",
      "FLOAT", "FLOAT4", "FLOAT8", "FLOOR", "FLUSH", "FOLLOWING", "FOLLOWS",
      "FOR", "FORCE", "FOREIGN", "FORMAT", "FOUND", "FROM", "FROM_BASE64",
      "FROM_DAYS", "FROM_UNIXTIME", "FULL", "FULLTEXT", "FUNCTION", "GENERAL",
      "GENERATED", "GET", "GET_FORMAT", "GIST", "GLOBAL", "GOTO", "GRANT",
      "GRANTS", "GREATEST", "GROUP", "HANDLER", "HARD", "HASH", "HAVING",
      "HELP", "HEX", "HIGH_PRIORITY", "HISTORY", "HOST", "HOSTS", "HOUR",
      "HOUR_MICROSECOND", "HOUR_MINUTE", "HOUR_SECOND", "ID", "IDENTIFIED",
      "IF", "IFNULL", "IGNORE", "IGNORE_DOMAIN_IDS", "IGNORE_SERVER_IDS",
      "IGNORED", "IMMEDIATE", "IMPORT", "IN", "INCREMENT", "INDEX", "INDEXES",
      "INFILE", "INITIAL_SIZE", "INNER", "INOUT", "INSENSITIVE", "INSERT",
      "INSERT_METHOD", "INSTALL", "INSTR", "INT", "INT1", "INT2", "INT3",
      "INT4", "INT8", "INTEGER", "INTERSECT", "INTERSECTA", "INTERVAL",
      "INTO", "INVISIBLE", "INVOKER", "IO", "IO_THREAD", "IPC", "IS",
      "ISOLATION", "ISOPEN", "ISSUER", "ITERATE", "JOIN", "JSON",
      "JSON_ARRAY", "JSON_ARRAY_APPEND", "JSON_ARRAY_INSERT", "JSON_ARRAYAGG",
      "JSON_COMPACT", "JSON_CONTAINS", "JSON_CONTAINS_PATH", "JSON_DEPTH",
      "JSON_DETAILED", "JSON_EQUALS", "JSON_EXISTS", "JSON_EXTRACT",
      "JSON_INSERT", "JSON_KEYS", "JSON_LENGTH", "JSON_LOOSE", "JSON_MERGE",
      "JSON_MERGE_PATCH", "JSON_MERGE_PRESERVE", "JSON_NORMALIZE",
      "JSON_OBJECT", "JSON_OBJECTAGG", "JSON_QUERY", "JSON_QUOTE",
      "JSON_REMOVE", "JSON_REPLACE", "JSON_SEARCH", "JSON_SET", "JSON_TABLE",
      "JSON_TYPE", "JSON_UNQUOTE", "JSON_VALID", "JSON_VALUE", "KEY",
      "KEY_BLOCK_SIZE", "KEYS", "KILL", "LANGUAGE", "LAST", "LAST_VALUE",
      "LASTVAL", "LCASE", "LEADING", "LEAST", "LEAVE", "LEAVES", "LEFT",
      "LENGTH", "LENGTHB", "LESS", "LEVEL", "LIKE", "LIMIT", "LINEAR",
      "LINES", "LIST", "LN", "LOAD", "LOAD_FILE", "LOCAL", "LOCALTIME",
      "LOCALTIMESTAMP", "LOCATE", "LOCK", "LOCKED", "LOCKS", "LOG", "LOG10",
      "LOG2", "LOGFILE", "LOGS", "LONG", "LONGBLOB", "LONGTEXT", "LOOP",
      "LOW_PRIORITY", "LOWER", "LPAD", "LTRIM", "MAKE_SET", "MAKEDATE",
      "MAKETIME", "MASTER", "MASTER_CONNECT_RETRY", "MASTER_DELAY",
      "MASTER_GTID_POS", "MASTER_HEARTBEAT_PERIOD", "MASTER_HOST",
      "MASTER_LOG_FILE", "MASTER_LOG_POS", "MASTER_PASSWORD", "MASTER_PORT",
      "MASTER_SERVER_ID", "MASTER_SSL", "MASTER_SSL_CA", "MASTER_SSL_CAPATH",
      "MASTER_SSL_CERT", "MASTER_SSL_CIPHER", "MASTER_SSL_CRL",
      "MASTER_SSL_CRLPATH", "MASTER_SSL_KEY", "MASTER_SSL_VERIFY_SERVER_CERT",
      "MASTER_USE_GTID", "MASTER_USER", "MATCH", "MAX",
      "MAX_CONNECTIONS_PER_HOUR", "MAX_QUERIES_PER_HOUR", "MAX_ROWS",
      "MAX_SIZE", "MAX_STATEMENT_TIME", "MAX_UPDATES_PER_HOUR",
      "MAX_USER_CONNECTIONS", "MAXVALUE", "MEDIUM", "MEDIUMBLOB", "MEDIUMINT",
      "MEDIUMTEXT", "MEMORY", "MERGE", "MESSAGE_TEXT", "MICROSECOND", "MID",
      "MIDDLEINT", "MIGRATE", "MIN", "MIN_ROWS", "MINUS", "MINUTE",
      "MINUTE_MICROSECOND", "MINUTE_SECOND", "MINVALUE", "MOD", "MODE",
      "MODIFIES", "MODIFY", "MONITOR", "MONTH", "MONTHNAME", "MUTEX", "MYSQL",
      "MYSQL_ERRNO", "NAME", "NAMES", "NATIONAL", "NATURAL",
      "NATURAL_SORT_KEY", "NCHAR", "NESTED", "NEVER", "NEW", "NEXT",
      "NEXTVAL", "NO", "NO_WAIT", "NO_WRITE_TO_BINLOG", "NOCACHE", "NOCYCLE",
      "NODEGROUP", "NOMAXVALUE", "NOMINVALUE", "NONE", "NOT", "NOTFOUND",
      "NOW", "NOWAIT", "NULL", "NULLIF", "NUMBER", "NUMERIC", "NVARCHAR",
      "NVL", "NVL2", "OCT", "OCTET_LENGTH", "OF", "OFFSET", "OLD_PASSWORD",
      "ON", "ONE", "ONLINE", "ONLY", "OPEN", "OPTIMIZE", "OPTION",
      "OPTIONALLY", "OPTIONS", "OR", "ORD", "ORDER", "ORDINALITY", "OTHERS",
      "OUT", "OUTER", "OUTFILE", "OVER", "OVERLAPS", "OWNER", "PACK_KEYS",
      "PACKAGE", "PAGE", "PAGE_CHECKSUM", "PARSE_VCOL_EXPR", "PARSER",
      "PARTIAL", "PARTITION", "PARTITIONING", "PARTITIONS", "PASSWORD",
      "PATH", "PERIOD", "PERIOD_ADD", "PERIOD_DIFF", "PERSISTENT", "PHASE",
      "PI", "PLUGIN", "PLUGINS", "PORT", "PORTION", "POSITION", "POW",
      "POWER", "PRECEDES", "PRECEDING", "PRECISION", "PREPARE", "PRESERVE",
      "PREV", "PREVIOUS", "PRIMARY", "PRIVILEGES", "PROCEDURE", "PROCESS",
      "PROCESSLIST", "PROFILE", "PROFILES", "PROXY", "PURGE", "QUARTER",
      "QUERY", "QUICK", "QUOTE", "RADIANS", "RAISE", "RAND", "RANGE", "RAW",
      "READ", "READ_ONLY", "READ_WRITE", "READS", "REAL", "REBUILD",
      "RECOVER", "RECURSIVE", "REDO_BUFFER_SIZE", "REDOFILE", "REDUNDANT",
      "REF_SYSTEM_ID", "REFERENCES", "REGEXP", "RELAY", "RELAY_LOG_FILE",
      "RELAY_LOG_POS", "RELAY_THREAD", "RELAYLOG", "RELEASE", "RELOAD",
      "REMOVE", "RENAME", "REORGANIZE", "REPAIR", "REPEAT", "REPEATABLE",
      "REPLACE", "REPLAY", "REPLICA", "REPLICA_POS", "REPLICAS",
      "REPLICATION", "REQUIRE", "RESET", "RESIGNAL", "RESTART", "RESTORE",
      "RESTRICT", "RESUME", "RETURN", "RETURNED_SQLSTATE", "RETURNING",
      "RETURNS", "REUSE", "REVERSE", "REVOKE", "RIGHT", "RLIKE", "ROLE",
      "ROLLBACK", "ROLLUP", "ROUND", "ROUTINE", "ROW", "ROW_COUNT",
      "ROW_FORMAT", "ROWCOUNT", "ROWNUM", "ROWS", "ROWTYPE", "RPAD", "RTREE",
      "RTRIM", "SAVEPOINT", "SCHEDULE", "SCHEMA", "SCHEMA_NAME", "SCHEMAS",
      "SEC_TO_TIME", "SECOND", "SECOND_MICROSECOND", "SECURITY", "SELECT",
      "SENSITIVE", "SEPARATOR", "SEQUENCE", "SERIAL", "SERIALIZABLE",
      "SERVER", "SESSION", "SET", "SETVAL", "SFORMAT", "SHARE", "SHOW",
      "SHUTDOWN", "SIGN", "SIGNAL", "SIGNED", "SIMPLE", "SIN", "SKIP",
      "SLAVE", "SLAVE_POS", "SLAVES", "SLOW", "SMALLINT", "SNAPSHOT",
      "SOCKET", "SOFT", "SOME", "SONAME", "SOUNDEX", "SOUNDS", "SOURCE",
      "SPACE", "SPATIAL", "SPECIFIC", "SQL", "SQL_BIG_RESULT",
      "SQL_BUFFER_RESULT", "SQL_CACHE", "SQL_CALC_FOUND_ROWS", "SQL_NO_CACHE",
      "SQL_SMALL_RESULT", "SQL_THREAD", "SQL_TSI_DAY", "SQL_TSI_HOUR",
      "SQL_TSI_MINUTE", "SQL_TSI_MONTH", "SQL_TSI_QUARTER", "SQL_TSI_SECOND",
      "SQL_TSI_WEEK", "SQL_TSI_YEAR", "SQLEXCEPTION", "SQLSTATE",
      "SQLWARNING", "SQRT", "SSL", "STAGE", "START", "STARTING", "STARTS",
      "STATEMENT", "STATS_AUTO_RECALC", "STATS_PERSISTENT",
      "STATS_SAMPLE_PAGES", "STATUS", "STDIN", "STOP", "STORAGE", "STORED",
      "STR_TO_DATE", "STRAIGHT_JOIN", "STRCMP", "STRING", "SUBCLASS_ORIGIN",
      "SUBDATE", "SUBJECT", "SUBPARTITION", "SUBPARTITIONS", "SUBSTR",
      "SUBSTRING", "SUBSTRING_INDEX", "SUBTIME", "SUM", "SUPER", "SUSPEND",
      "SWAPS", "SWITCHES", "SYSDATE", "SYSTEM", "SYSTEM_TIME", "TABLE",
      "TABLE_CHECKSUM", "TABLE_NAME", "TABLES", "TABLESPACE", "TAN",
      "TEMPORARY", "TEMPTABLE", "TERMINATED", "TEXT", "THAN", "THEN",
      "THREADS", "TIES", "TIME", "TIME_FORMAT", "TIME_TO_SEC", "TIMEDIFF",
      "TIMESTAMP", "TIMESTAMPADD", "TIMESTAMPDIFF", "TINYBLOB", "TINYINT",
      "TINYTEXT", "TO", "TO_BASE64", "TO_CHAR", "TO_DAYS", "TO_SECONDS",
      "TRAILING", "TRANSACTION", "TRANSACTIONAL", "TRIGGER", "TRIGGERS",
      "TRUE", "TRUNCATE", "TYPE", "TYPES", "UCASE", "UNBOUNDED",
      "UNCOMMITTED", "UNCOMPRESSED_LENGTH", "UNDEFINED", "UNDO",
      "UNDO_BUFFER_SIZE", "UNDOFILE", "UNHEX", "UNICODE", "UNINSTALL",
      "UNION", "UNIQUE", "UNIX_TIMESTAMP", "UNKNOWN", "UNLOCK", "UNSIGNED",
      "UNTIL", "UPDATE", "UPDATEXML", "UPGRADE", "UPPER", "USAGE", "USE",
      "USE_FRM", "USER", "USER_RESOURCES", "USING", "UTC_DATE", "UTC_TIME",
      "UTC_TIMESTAMP", "VALUE", "VALUES", "VARBINARY", "VARCHAR", "VARCHAR2",
      "VARCHARACTER", "VARIABLES", "VARYING", "VERSIONING", "VIA", "VIEW",
      "VIRTUAL", "VISIBLE", "WAIT", "WARNINGS", "WEEK", "WEEKDAY",
      "WEEKOFYEAR", "WEIGHT_STRING", "WHEN", "WHERE", "WHILE", "WINDOW",
      "WITH", "WITHIN", "WITHOUT", "WORK", "WRAPPER", "WRITE", "X509", "XA",
      "XML", "XOR", "YEAR", "YEAR_MONTH", "ZEROFILL", "ZONE" }

\* The entries of reserved![].
ReservedList ==
    { "ACCESSIBLE", "ADD", "ALL", "ALTER", "ANALYZE", "AND", "AS", "ASC",
      "ASENSITIVE", "BEFORE", "BETWEEN", "BIGINT", "BINARY", "BLOB", "BOTH",
      "BY", "CALL", "CASCADE", "CASE", "CHANGE", "CHAR", "CHARACTER", "CHECK",
      "COLLATE", "COLUMN", "COMMENT", "CONDITION", "CONSTRAINT", "CONTINUE",
      "CONVERT", "CREATE", "CROSS", "CURRENT_DATE", "CURRENT_ROLE",
      "CURRENT_TIME", "CURRENT_TIMESTAMP", "CURRENT_USER", "CURSOR",
      "DATABASE", "DATABASES", "DAY_HOUR", "DAY_MICROSECOND", "DAY_MINUTE",
      "DAY_SECOND", "DEC", "DECIMAL", "DECLARE", "DEFAULT", "DELAYED",
      "DELETE", "DELETE_DOMAIN_ID", "DESC", "DESCRIBE", "DETERMINISTIC",
      "DISTINCT", "DISTINCTROW", "DIV", "DO_DOMAIN_IDS", "DOUBLE", "DROP",
      "DUAL", "EACH", "ELSE", "ELSEIF", "ENCLOSED", "ESCAPED", "EXCEPT",
      "EXISTS", "EXIT", "EXPLAIN", "FALSE", "FETCH", "FLOAT", "FLOAT4",
      "FLOAT8", "FOR", "FORCE", "FOREIGN", "FROM", "FULLTEXT", "GENERAL",
      "GRANT", "GROUP", "HAVING", "HIGH_PRIORITY", "HOUR_MICROSECOND",
      "HOUR_MINUTE", "HOUR_SECOND", "IF", "IGNORE", "IGNORE_DOMAIN_IDS",
      "IGNORE_SERVER_IDS", "IN", "INDEX", "INFILE", "INNER", "INOUT",
      "INSENSITIVE", "INSERT", "INT", "INT1", "INT2", "INT3", "INT4", "INT8",
      "INTEGER", "INTERSECTA", "INTERVAL", "INTO", "IS", "ITERATE", "JOIN",
      "KEY", "KEYS", "KILL", "LEADING", "LEAVE", "LEFT", "LIKE", "LIMIT",
      "LINEAR", "LINES", "LOAD", "LOCALTIME", "LOCALTIMESTAMP", "LOCK",
      "LONG", "LONGBLOB", "LONGTEXT", "LOOP", "LOW_PRIORITY",
      "MASTER_HEARTBEAT_PERIOD", "MASTER_SSL_VERIFY_SERVER_CERT", "MATCH",
      "MAXVALUE", "MEDIUMBLOB", "MEDIUMINT", "MEDIUMTEXT", "MIDDLEINT",
      "MINUTE_MICROSECOND", "MINUTE_SECOND", "MOD", "MODIFIES", "NATURAL",
      "NO_WRITE_TO_BINLOG", "NOT", "NULL", "NUMERIC", "OFFSET", "ON",
      "OPTIMIZE", "OPTION", "OPTIONALLY", "OR", "ORDER", "OUT", "OUTER",
      "OUTFILE", "OVER", "PAGE_CHECKSUM", "PARSE_VCOL_EXPR", "PARTITION",
      "POSITION", "PRECISION", "PRIMARY", "PROCEDURE", "PURGE", "RANGE",
      "READ", "READ_WRITE", "READS", "REAL", "RECURSIVE", "REF_SYSTEM_ID",
      "REFERENCES", "REGEXP", "RENAME", "REPEAT", "REPLACE", "REQUIRE",
      "RESIGNAL", "RESTRICT", "RETURN", "RETURNING", "REVOKE", "RIGHT",
      "RLIKE", "ROWS", "SCHEMA", "SCHEMAS", "SECOND_MICROSECOND", "SELECT",
      "SENSITIVE", "SEPARATOR", "SET", "SHOW", "SIGNAL", "SLOW", "SMALLINT",
      "SPATIAL", "SPECIFIC", "SQL", "SQL_BIG_RESULT", "SQL_CALC_FOUND_ROWS",
      "SQL_SMALL_RESULT", "SQLEXCEPTION", "SQLSTATE", "SQLWARNING", "SSL",
      "STARTING", "STATS_AUTO_RECALC", "STATS_PERSISTENT",
      "STATS_SAMPLE_PAGES", "STRAIGHT_JOIN", "TABLE", "TERMINATED", "THEN",
      "TINYBLOB", "TINYINT", "TINYTEXT", "TO", "TRAILING", "TRIGGER", "TRUE",
      "UNDO", "UNION", "UNIQUE", "UNLOCK", "UNSIGNED", "UPDATE", "USAGE",
      "USE", "USING", "UTC_DATE", "UTC_TIME", "UTC_TIMESTAMP", "VALUES",
      "VARBINARY", "VARCHAR", "VARCHARACTER", "VARYING", "WHEN", "WHERE",
      "WHILE", "WINDOW", "WITH", "WRITE", "XOR", "YEAR_MONTH", "ZEROFILL",
      "END" }

\* The entries of expr_ident![].
ExprIdentList ==
    { "CURRENT_DATE", "CURRENT_TIME", "CURRENT_TIMESTAMP", "IF", "REPLACE",
      "RIGHT", "UTC_DATE", "UTC_TIME", "UTC_TIMESTAMP", "VALUES" }

\* Keyword::reserved: true for the listed words, false for everything else
\* (NOT_A_KEYWORD and QUOTED_IDENTIFIER included).
reserved(k) == k \in ReservedList

\* expr_ident without the fall-through arm: only the listed words.
expr_ident_listed_only(k) == k \in ExprIdentList

\* Keyword::expr_ident: true for the listed words, otherwise !reserved().
expr_ident(k) == IF k \in ExprIdentList THEN TRUE ELSE ~reserved(k)

----------------------------------------------------------------------------
(* Tokens                                                                  *)

Punctuation == { "(", ")", ",", ".", "=", "@", ";" }
Eof == "<eof>"
Integers_ == { "1", "2" }
Strings_ == { "'s'" }
\* A back-quoted identifier: Token::Ident(text, QUOTED_IDENTIFIER).
QuotedIdentifiers == { "quoted_select" }
Delimiter == ";"

\* Keyword::from(&str): the keyword of that name, NOT_A_KEYWORD otherwise.
KeywordFrom(text) == IF text \in Keywords THEN text ELSE "NOT_A_KEYWORD"

\* Token::Ident(text, keyword): every lexeme that is not punctuation, a
\* literal or end-of-input.
IsIdent(t) == t \notin Punctuation \cup Integers_ \cup Strings_ \cup { Eof }

\* The keyword classification carried by an identifier-shaped token.
Kw(t) ==
    IF ~IsIdent(t) THEN "<none>"
    ELSE IF t \in QuotedIdentifiers THEN "QUOTED_IDENTIFIER"
    ELSE KeywordFrom(t)

----------------------------------------------------------------------------
(* Span algebra (spec.md 4.1)                                              *)

\* An absent Option / an empty Vec reports no span.
None == <<>>

Min(a, b) == IF a <= b THEN a ELSE b
Max(a, b) == IF a >= b THEN a ELSE b

\* Span::join_span(other): the smallest span containing both; joining an
\* absent value is a no-op.
join_span(a, b) ==
    IF b = None THEN a
    ELSE IF a = None THEN b
    ELSE <<Min(a[1], b[1]), Max(a[2], b[2])>>

\* OptSpanned for a sequence of spans: the join of all elements, None when
\* the sequence is empty.
RECURSIVE join_all(_)
join_all(spans) ==
    IF spans = <<>> THEN None
    ELSE join_span(spans[1], join_all(Tail(spans)))

\* The spans of a sequence of span-bearing records.
SpansOf(items) == [i \in 1..Len(items) |-> items[i].span]

\* a lies inside b
Inside(a, b) == a = None \/ (b # None /\ b[1] <= a[1] /\ a[2] <= b[2])

----------------------------------------------------------------------------
(* Parser core (spec.md 4.2, 4.3)                                          *)

TokenWidth == 1
TokenGap == 1

\* Byte range of the i-th token of a stream that starts at offset b.
SpanAt(b, i) ==
    << b + (i - 1) * (TokenWidth + TokenGap),
       b + (i - 1) * (TokenWidth + TokenGap) + TokenWidth >>

AtEof(s) == s.pos > Len(s.toks)

\* parser.token
Token(s) == IF AtEof(s) THEN Eof ELSE s.toks[s.pos]

\* parser.span: the span of the current token; end-of-input is the empty
\* span at the end of the text.
span(s) ==
    IF AtEof(s)
    THEN IF s.toks = <<>> THEN <<s.base, s.base>>
         ELSE <<SpanAt(s.base, Len(s.toks))[2], SpanAt(s.base, Len(s.toks))[2]>>
    ELSE SpanAt(s.base, s.pos)

Ok(s, v) == [ok |-> TRUE, s |-> s, v |-> v]

\* Issue::err(message, span)
IssueErr(message, sp) ==
    [level |-> "error", message |-> message, span |-> sp, fragments |-> <<>>]

\* Issue::frag(label, span)
Frag(issue, label, sp) ==
    [issue EXCEPT !.fragments = Append(@, [message |-> label, span |-> sp])]

PushIssue(s, issue) == [s EXCEPT !.issues = Append(@, issue)]

\* expected_failure(description): a structural failure that carries what was
\* expected and the position at which it was expected.
expected_failure(s, description) ==
    [ok |-> FALSE, s |-> [s EXCEPT !.failures = @ + 1],
     v |-> [expected |-> description, span |-> span(s)]]

\* expected_error(description): the same diagnostic logged as an issue, with
\* no failure raised.
expected_error(s, description) == PushIssue(s, IssueErr(description, span(s)))

\* consume(): advance the cursor past the current token, returning its span.
consume(s) ==
    Ok([s EXCEPT !.pos = IF AtEof(s) THEN @ ELSE @ + 1], span(s))

consume_token(s, t) ==
    IF Token(s) = t THEN consume(s) ELSE expected_failure(s, t)

consume_keyword(s, k) ==
    IF IsIdent(Token(s)) /\ Kw(Token(s)) = k THEN consume(s)
    ELSE expected_failure(s, k)

\* consume_keywords([k1..kn]): the exact sequence; the join of the consumed spans.
RECURSIVE consume_keywords(_, _)
consume_keywords(s, ks) ==
    IF ks = <<>> THEN Ok(s, None)
    ELSE LET r == consume_keyword(s, ks[1]) IN
         IF ~r.ok THEN r
         ELSE LET q == consume_keywords(r.s, Tail(ks)) IN
              IF ~q.ok THEN q ELSE Ok(q.s, join_span(r.v, q.v))

\* skip_keyword / skip_token: non-failing probes.
skip_keyword(s, k) ==
    IF IsIdent(Token(s)) /\ Kw(Token(s)) = k THEN consume(s) ELSE Ok(s, None)

skip_token(s, t) ==
    IF Token(s) = t THEN consume(s) ELSE Ok(s, None)

\* Identifier::new(text, span)
Identifier(text, sp) == [value |-> text, span |-> sp]

\* consume_plain_identifier: rule 4.3 (identifier-shaped and not reserved).
consume_plain_identifier(s) ==
    IF ~IsIdent(Token(s)) THEN expected_failure(s, "identifier")
    ELSE IF reserved(Kw(Token(s))) THEN expected_failure(s, "identifier")
    ELSE Ok(consume(s).s, Identifier(Token(s), span(s)))

\* consume_string: a string literal.
consume_string(s) ==
    IF Token(s) \in Strings_
    THEN Ok(consume(s).s, [value |-> Token(s), span |-> span(s)])
    ELSE expected_failure(s, "string")

\* The is_sync_token closures of the productions compare the current token
\* with a few punctuation tokens or keywords: sync is that set.
is_sync_token(t, sync) == (IF IsIdent(t) THEN Kw(t) ELSE t) \in sync

\* The first position at or after the cursor whose token is a sync token,
\* or end-of-input.
SyncPos(s, sync) ==
    LET stop == { p \in s.pos..(Len(s.toks) + 1) :
                    p = Len(s.toks) + 1 \/ is_sync_token(s.toks[p], sync) }
    IN CHOOSE p \in stop : \A q \in stop : p <= q

\* recovered(sync, is_sync_token, body): r is what body returned.  A failure
\* becomes one issue, the cursor moves to the next sync token, and the caller
\* goes on with what body had done before it failed.
recovered(r, sync) ==
    IF r.ok THEN r
    ELSE LET logged == PushIssue(r.s, IssueErr(r.v.expected, r.v.span)) IN
         Ok([logged EXCEPT !.pos = SyncPos(logged, sync)], "recovered")

\* The ? operator: run f on the state and value of a success, hand a failure on.
Try(r, f(_)) == IF r.ok THEN f(r) ELSE r

----------------------------------------------------------------------------
(* Collaborator parsers (spec.md 6): each takes the parser core and fails   *)
(* the way the core's primitives do.                                        *)

TypeKeywords == { "INT", "TEXT" }

\* parse_data_type: a type name.
parse_data_type(s) ==
    IF IsIdent(Token(s)) /\ Kw(Token(s)) \in TypeKeywords
    THEN Ok(consume(s).s, [type |-> Token(s), span |-> span(s)])
    ELSE expected_failure(s, "type")

\* parse_expression: a literal, or an identifier-shaped token that carries
\* the expr-ident facet (4.3).
parse_expression(s) ==
    IF Token(s) \in Integers_ \cup Strings_
       \/ (IsIdent(Token(s)) /\ expr_ident(Kw(Token(s))))
    THEN Ok(consume(s).s, [value |-> Token(s), span |-> span(s)])
    ELSE expected_failure(s, "expression")

\* parse_select: SELECT and one select expression.
parse_select(s) ==
    Try(consume_keyword(s, "SELECT"), LAMBDA k :
    Try(parse_expression(k.s), LAMBDA e :
        Ok(e.s, [select_span |-> k.v, expr |-> e.v,
                 span |-> join_span(k.v, e.v.span)])))

\* parse_statement: the statement dispatcher; absent when no statement
\* starts at the cursor.
parse_statement(s) ==
    IF IsIdent(Token(s)) /\ Kw(Token(s)) = "SELECT" THEN parse_select(s)
    ELSE Ok(s, None)

----------------------------------------------------------------------------
(* Production plumbing                                                     *)

NoError == [expected |-> "", span |-> None]

\* The locals of parse_create and its sub-productions, and of parse_replace,
\* as they are before the production assigns them.
LocInit ==
    [ create_span |-> None, create_options |-> <<>>,
      table_span |-> None, identifier |-> None, if_not_exists |-> None,
      create_definitions |-> <<>>, options |-> <<>>,
      function_span |-> None, name |-> None, params |-> <<>>,
      returns_span |-> None, return_type |-> None, characteristics |-> <<>>,
      replace_span |-> None, flags |-> <<>>, into_span |-> None,
      table |-> <<>>, columns |-> <<>>, values_span |-> None,
      values_items |-> <<>>, vals |-> <<>> ]

\* The state of a parse that is about to enter production entry.
Start(ts, b, entry) ==
    [ toks |-> ts, base |-> b, pos |-> 1, issues |-> <<>>, pc |-> entry,
      loc |-> LocInit,
      out |-> [status |-> "running", node |-> None, error |-> NoError],
      failures |-> 0 ]

\* A failure that reaches the production's caller: Err(ParseError).
Propagate(r) ==
    [r.s EXCEPT !.pc = "done",
                !.out = [status |-> "err", node |-> None, error |-> r.v]]

\* Ok(node)
Return(s, node) ==
    [s EXCEPT !.pc = "done",
              !.out = [status |-> "ok", node |-> node, error |-> NoError]]

Goto(s, label) == [s EXCEPT !.pc = label]

\* vec.push(x) on a local
Push(s, local, x) == [s EXCEPT !.loc[local] = Append(@, x)]

\* local = x
Assign(s, local, x) == [s EXCEPT !.loc[local] = x]

\* One pass through a loop body: the body either goes round again or breaks.
Continue(s) == Ok(s, "continue")
Break(s) == Ok(s, "break")

----------------------------------------------------------------------------
(* CREATE (src/src/create.rs)                                              *)

\* CreateAlgorithm and its span
CreateAlgorithm(variant, sp) == [type |-> variant, span |-> sp]

\* CreateOption variants, each with the span CreateOption::span joins for it.
OrReplace(sp) == [type |-> "OrReplace", span |-> sp]
Temporary(sp) == [type |-> "Temporary", span |-> sp]
Algorithm(sp, algorithm) ==
    [type |-> "Algorithm", algorithm |-> algorithm.type,
     span |-> join_span(sp, algorithm.span)]
Definer(definer_span, user, host) ==
    [type |-> "Definer", user |-> user.value, host |-> host.value,
     span |-> join_span(join_span(definer_span, user.span), host.span)]
SqlSecurityDefiner(a, b) == [type |-> "SqlSecurityDefiner", span |-> join_span(a, b)]
SqlSecurityUser(a, b) == [type |-> "SqlSecurityUser", span |-> join_span(a, b)]

\* The sync token of the modifier scope and the dispatch of parse_create.
Creatable == { "TABLE", "VIEW", "TRIGGER", "FUNCTION" }
IsCreatable(t) == IsIdent(t) /\ Kw(t) \in Creatable

\* parse_create, entry: the span of CREATE is taken, then CREATE is consumed.
parse_create(s) ==
    LET create_span == span(s)
        r == consume_keyword(s, "CREATE")
    IN IF ~r.ok THEN Propagate(r)
       ELSE Goto(Assign(r.s, "create_span", create_span), "create_options")

\* The algorithm named after ALGORITHM =
create_algorithm(s) ==
    LET k == Kw(Token(s)) IN
    IF k = "UNDEFINED"
    THEN Try(consume_keyword(s, "UNDEFINED"), LAMBDA r :
             Ok(r.s, CreateAlgorithm("Undefined", r.v)))
    ELSE IF k = "MERGE"
    THEN Try(consume_keyword(s, "MERGE"), LAMBDA r :
             Ok(r.s, CreateAlgorithm("Merge", r.v)))
    ELSE IF k = "TEMPTABLE"
    THEN Try(consume_keyword(s, "TEMPTABLE"), LAMBDA r :
             Ok(r.s, CreateAlgorithm("TempTable", r.v)))
    ELSE expected_failure(s, "'UNDEFINED', 'MERGE' or 'TEMPTABLE'")

\* sql_security that is refused after any other modifier.
sql_security_first(s, sp) ==
    LET k == Kw(Token(s)) IN
    IF s.loc.create_options # <<>> THEN expected_failure(s, "'DEFINER', 'USER'")
    ELSE IF k = "DEFINER"
    THEN Try(consume_keyword(s, "DEFINER"), LAMBDA r :
             Ok(r.s, SqlSecurityDefiner(sp, r.v)))
    ELSE IF k = "USER"
    THEN Try(consume_keyword(s, "USER"), LAMBDA r :
             Ok(r.s, SqlSecurityUser(sp, r.v)))
    ELSE expected_failure(s, "'DEFINER', 'USER'")

\* DEFINER or USER after SQL SECURITY
sql_security(s, sp) ==
    LET k == Kw(Token(s)) IN
    IF k = "DEFINER"
    THEN Try(consume_keyword(s, "DEFINER"), LAMBDA r :
             Ok(r.s, SqlSecurityDefiner(sp, r.v)))
    ELSE IF k = "USER"
    THEN Try(consume_keyword(s, "USER"), LAMBDA r :
             Ok(r.s, SqlSecurityUser(sp, r.v)))
    ELSE expected_failure(s, "'DEFINER', 'USER'")

\* One pass of the modifier loop of parse_create: the matched modifier is
\* parsed and pushed to create_options, any other token breaks the loop.
create_option(s) ==
    LET k == Kw(Token(s))
        push(r) == Continue(Push(r.s, "create_options", r.v))
    IN
    IF k = "OR"
    THEN Try(consume_keywords(s, <<"OR", "REPLACE">>), LAMBDA r :
             push(Ok(r.s, OrReplace(r.v))))
    ELSE IF k = "TEMPORARY"
    THEN Try(consume_keyword(s, "TEMPORARY"), LAMBDA r :
             push(Ok(r.s, Temporary(r.v))))
    ELSE IF k = "ALGORITHM"
    THEN Try(consume_keyword(s, "ALGORITHM"), LAMBDA a :
         Try(consume_token(a.s, "="), LAMBDA e :
         Try(create_algorithm(e.s), LAMBDA g :
             push(Ok(g.s, Algorithm(a.v, g.v))))))
    ELSE IF k = "DEFINER"
    THEN Try(consume_keyword(s, "DEFINER"), LAMBDA d :
         Try(consume_token(d.s, "="), LAMBDA e :
         Try(consume_plain_identifier(e.s), LAMBDA user :
         Try(consume_token(user.s, "@"), LAMBDA at :
         Try(consume_plain_identifier(at.s), LAMBDA host :
             push(Ok(host.s, Definer(d.v, user.v, host.v))))))))
    ELSE IF k = "SQL"
    THEN Try(consume_keywords(s, <<"SQL", "SECURITY">>), LAMBDA q :
         Try(sql_security(q.s, q.v), LAMBDA r : push(r)))
    ELSE Break(s)

\* The modifier loop without its recovery scope: a failure is handed on.
parse_create_options_unrecovered(s) ==
    LET r == create_option(s) IN
    IF ~r.ok THEN Propagate(r)
    ELSE IF r.v = "continue" THEN r.s ELSE Goto(r.s, "create_dispatch")

\* The modifier scope that logs an issue for a modifier of a kind already
\* in create_options.
parse_create_options_once(s) ==
    LET r == recovered(create_option(s), Creatable)
        os == r.s.loc.create_options
    IN IF r.v = "continue"
       THEN IF \E i \in 1..(Len(os) - 1) : os[i].type = os[Len(os)].type
            THEN PushIssue(r.s, IssueErr("Modifier given twice", os[Len(os)].span))
            ELSE r.s
       ELSE Goto(r.s, "create_dispatch")

\* The modifier scope that goes round again after a failure when it stopped
\* at the keyword of another modifier.
parse_create_options_resuming(s) ==
    LET body == create_option(s)
        heads == { "OR", "TEMPORARY", "ALGORITHM", "DEFINER", "SQL" }
        r == recovered(body, Creatable \cup heads)
    IN IF r.v = "continue" THEN r.s
       ELSE IF ~body.ok /\ IsIdent(Token(r.s)) /\ Kw(Token(r.s)) \in heads THEN r.s
       ELSE Goto(r.s, "create_dispatch")

\* parse_create, the modifier scope: recovered(CREATABLE, ..) around the loop.
parse_create_options(s) ==
    LET r == recovered(create_option(s), Creatable) IN
    IF r.v = "continue" THEN r.s ELSE Goto(r.s, "create_dispatch")

\* const CREATABLE: what the modifier scope and the dispatch say they expect.
CREATABLE == "'TABLE' | 'VIEW' | 'TRIGGER' | 'FUNCTION'"

\* The dispatch that logs the unmatched keyword and returns no statement,
\* instead of failing.
parse_create_dispatch_logged(s) ==
    LET k == Kw(Token(s)) IN
    IF k = "TABLE" THEN Goto(s, "create_table")
    ELSE IF k = "VIEW" THEN Goto(s, "create_view")
    ELSE IF k = "FUNCTION" THEN Goto(s, "create_function")
    ELSE IF k = "TRIGGER" THEN Goto(s, "create_trigger")
    ELSE Return(expected_error(s, CREATABLE), None)

\* parse_create, the dispatch on the sub-kind keyword.
parse_create_dispatch(s) ==
    LET k == Kw(Token(s)) IN
    IF k = "TABLE" THEN Goto(s, "create_table")
    ELSE IF k = "VIEW" THEN Goto(s, "create_view")
    ELSE IF k = "FUNCTION" THEN Goto(s, "create_function")
    ELSE IF k = "TRIGGER" THEN Goto(s, "create_trigger")
    ELSE Propagate(expected_failure(s, CREATABLE))

----------------------------------------------------------------------------
(* CREATE TABLE                                                            *)

\* TableOption variants with an identifier-like value, and TableOption::span.
TableOption(variant, identifier, value) ==
    [type |-> variant, identifier |-> identifier, value |-> value.value,
     span |-> join_span(identifier, value.span)]

\* CreateDefinition::ColumnDefinition and CreateDefinition::span.
ColumnDefinition(identifier, data_type) ==
    [identifier |-> identifier.value, data_type |-> data_type.type,
     span |-> join_span(identifier.span, data_type.span)]

\* CreateTable::span
CreateTable_span(n) ==
    join_span(join_span(join_span(join_span(join_span(join_span(
        n.create_span,
        join_all(SpansOf(n.create_options))),
        n.table_span),
        n.identifier.span),
        n.if_not_exists),
        join_all(SpansOf(n.create_definitions))),
        join_all(SpansOf(n.options)))

\* The CreateTable built from the locals of parse_create_table.
CreateTable(l) ==
    LET n == [ kind |-> "CreateTable",
               create_span |-> l.create_span,
               create_options |-> l.create_options,
               table_span |-> l.table_span,
               identifier |-> l.identifier,
               if_not_exists |-> l.if_not_exists,
               create_definitions |-> l.create_definitions,
               options |-> l.options ]
    IN n

\* parse_create_definition that binds whatever identifier-shaped token it meets.
parse_create_definition_any(s) ==
    IF IsIdent(Token(s))
    THEN Try(Ok(consume(s).s, Identifier(Token(s), span(s))), LAMBDA identifier :
         Try(parse_data_type(identifier.s), LAMBDA data_type :
             Ok(data_type.s, ColumnDefinition(identifier.v, data_type.v))))
    ELSE expected_failure(s, "identifier")

parse_create_definition(s) ==
    IF IsIdent(Token(s))
    THEN Try(consume_plain_identifier(s), LAMBDA identifier :
         Try(parse_data_type(identifier.s), LAMBDA data_type :
             Ok(data_type.s, ColumnDefinition(identifier.v, data_type.v))))
    ELSE expected_failure(s, "identifier")

\* The body of the name scope: IF NOT EXISTS and the table name.
table_name(s) ==
    LET if_ == skip_keyword(s, "IF")
        named(q) == Try(consume_plain_identifier(q), LAMBDA i :
                        Ok(Assign(i.s, "identifier", i.v), "done"))
    IN IF if_.v # None
       THEN Try(consume_keywords(if_.s, <<"NOT", "EXISTS">>), LAMBDA r :
                named(Assign(r.s, "if_not_exists", <<if_.v[1], r.v[2]>>)))
       ELSE named(if_.s)

\* parse_create_table up to the opening parenthesis.
parse_create_table(s) ==
    LET t == consume_keyword(s, "TABLE") IN
    IF ~t.ok THEN Propagate(t)
    ELSE LET s1 == Assign(Assign(Assign(t.s, "table_span", t.v),
                           "identifier", Identifier("", <<0, 0>>)),
                           "if_not_exists", None)
             r == recovered(table_name(s1), { "(" })
             p == consume_token(r.s, "(")
         IN IF ~p.ok THEN Propagate(p) ELSE Goto(p.s, "create_definitions")

\* One pass of the definition loop, and the closing parenthesis after it.
parse_create_definitions(s) ==
    LET body == Try(parse_create_definition(s), LAMBDA d :
                    Ok(Push(d.s, "create_definitions", d.v), "done"))
        r == recovered(body, { ")", "," })
    IN IF Token(r.s) = ")"
       THEN LET p == consume_token(r.s, ")") IN
            IF ~p.ok THEN Propagate(p) ELSE Goto(p.s, "table_options")
       ELSE LET c == consume_token(r.s, ",") IN
            IF ~c.ok THEN Propagate(c) ELSE c.s

\* identifier_option without the probe for '='.
identifier_option_no_eq(s, variant, identifier) ==
    Try(consume_plain_identifier(s), LAMBDA v :
        Continue(Push(v.s, "options", TableOption(variant, identifier, v.v))))

\* identifier_option that drops the failure of its value and goes on.
identifier_option_swallowed(s, variant, identifier) ==
    LET v == consume_plain_identifier(skip_token(s, "=").s) IN
    IF v.ok THEN Continue(Push(v.s, "options", TableOption(variant, identifier, v.v)))
    ELSE Continue(v.s)

\* identifier_option with the identifier span taken after the keyword(s).
identifier_option_late(s, variant, identifier) ==
    Try(consume_plain_identifier(skip_token(s, "=").s), LAMBDA v :
        Continue(Push(v.s, "options", TableOption(variant, span(s), v.v))))

\* An option whose value is a plain identifier, after its keyword(s).
identifier_option(s, variant, identifier) ==
    Try(consume_plain_identifier(skip_token(s, "=").s), LAMBDA v :
        Continue(Push(v.s, "options", TableOption(variant, identifier, v.v))))

\* One pass of the table option loop.
table_option(s) ==
    LET identifier == span(s)
        k == Kw(Token(s))
    IN
    IF k = "ENGINE"
    THEN Try(consume_keyword(s, "ENGINE"), LAMBDA r :
             identifier_option(r.s, "Engine", identifier))
    ELSE IF k = "DEFAULT"
    THEN Try(consume_keyword(s, "DEFAULT"), LAMBDA d :
             IF Kw(Token(d.s)) = "CHARSET"
             THEN Try(consume_keyword(d.s, "CHARSET"), LAMBDA r :
                      identifier_option(r.s, "DefaultCharSet", identifier))
             ELSE IF Kw(Token(d.s)) = "COLLATE"
             THEN Try(consume_keyword(d.s, "COLLATE"), LAMBDA r :
                      identifier_option(r.s, "DefaultCollate", identifier))
             ELSE expected_failure(d.s, "'CHARSET' or 'COLLATE'"))
    ELSE IF k = "CHARSET"
    THEN Try(consume_keyword(s, "CHARSET"), LAMBDA r :
             identifier_option(r.s, "CharSet", identifier))
    ELSE IF k = "COLLATE"
    THEN Try(consume_keyword(s, "COLLATE"), LAMBDA r :
             identifier_option(r.s, "Collate", identifier))
    ELSE IF k = "ROW_FORMAT"
    THEN Try(consume_keyword(s, "ROW_FORMAT"), LAMBDA r :
             identifier_option(r.s, "RowFormat", identifier))
    ELSE IF k = "COMMENT"
    THEN Try(consume_keyword(s, "COMMENT"), LAMBDA r :
         Try(consume_string(skip_token(r.s, "=").s), LAMBDA v :
             Continue(Push(v.s, "options", TableOption("Comment", identifier, v.v)))))
    ELSE IF Token(s) = Delimiter THEN Break(s)
    ELSE IF Token(s) = Eof THEN Break(s)
    ELSE expected_failure(s, "table option or delimiter")

\* The option loop without its recovery scope: a failure is handed on.
parse_table_options_unrecovered(s) ==
    LET r == table_option(s) IN
    IF ~r.ok THEN Propagate(r)
    ELSE IF r.v = "continue" THEN r.s ELSE Return(r.s, CreateTable(r.s.loc))

\* The option scope of parse_create_table, and the node it returns.
parse_table_options(s) ==
    LET r == recovered(table_option(s), { Eof, Delimiter }) IN
    IF r.v = "continue" THEN r.s ELSE Return(r.s, CreateTable(r.s.loc))

----------------------------------------------------------------------------
(* CREATE VIEW, CREATE FUNCTION, CREATE TRIGGER                            *)

\* The span of an optional span-bearing value.
opt_span(x) == IF x = None THEN None ELSE x.span

\* The IF NOT EXISTS probe that gives absent when NOT EXISTS does not follow.
if_not_exists_lenient(s) ==
    LET if_ == skip_keyword(s, "IF")
        r == consume_keywords(if_.s, <<"NOT", "EXISTS">>)
    IN IF if_.v # None /\ r.ok
       THEN Ok(r.s, join_span(r.v, if_.v))
       ELSE Ok(if_.s, None)

\* The IF NOT EXISTS probe of the view, function and trigger productions.
if_not_exists(s) ==
    LET if_ == skip_keyword(s, "IF") IN
    IF if_.v # None
    THEN Try(consume_keywords(if_.s, <<"NOT", "EXISTS">>), LAMBDA r :
             Ok(r.s, join_span(r.v, if_.v)))
    ELSE Ok(if_.s, None)

\* CreateView::span
CreateView_span(n) ==
    join_span(join_span(join_span(join_span(join_span(join_span(
        n.create_span,
        join_all(SpansOf(n.create_options))),
        n.view_span),
        n.if_not_exists),
        n.name.span),
        n.as_span),
        n.select.span)

parse_create_view(s) ==
    LET r == Try(consume_keyword(s, "VIEW"), LAMBDA view_span :
             Try(if_not_exists(view_span.s), LAMBDA ine :
             Try(consume_plain_identifier(ine.s), LAMBDA name :
             Try(consume_keyword(name.s, "AS"), LAMBDA as_span :
             Try(parse_select(as_span.s), LAMBDA select :
                 Ok(select.s,
                    [ kind |-> "CreateView",
                      create_span |-> s.loc.create_span,
                      create_options |-> s.loc.create_options,
                      view_span |-> view_span.v,
                      if_not_exists |-> ine.v,
                      name |-> name.v,
                      as_span |-> as_span.v,
                      select |-> select.v ]))))))
    IN IF r.ok THEN Return(r.s, r.v) ELSE Propagate(r)

\* FunctionCharacteristic variants; each holds exactly its span.
FunctionCharacteristic(variant, sp) == [type |-> variant, span |-> sp]

\* CreateFunction::span
CreateFunction_span(n) ==
    join_span(join_span(join_span(join_span(join_span(join_span(join_span(
    join_span(
        n.create_span,
        join_all(SpansOf(n.create_options))),
        n.function_span),
        n.if_not_exists),
        n.name.span),
        n.return_type.span),
        join_all(SpansOf(n.characteristics))),
        n.return_span),
        n.return_.span)

\* The parameter loop inside the parameter scope.
RECURSIVE function_params(_)
function_params(s) ==
    Try(consume_plain_identifier(s), LAMBDA name :
    Try(parse_data_type(name.s), LAMBDA type_ :
        LET pushed == Push(type_.s, "params",
                           [name |-> name.v.value, type_ |-> type_.v.type,
                            span |-> join_span(name.v.span, type_.v.span)])
            comma == skip_token(pushed, ",")
        IN IF comma.v = None THEN Ok(comma.s, "done")
           ELSE function_params(comma.s)))

\* parse_create_function up to the return type.
parse_create_function(s) ==
    LET r == Try(consume_keyword(s, "FUNCTION"), LAMBDA function_span :
             Try(if_not_exists(function_span.s), LAMBDA ine :
             Try(consume_plain_identifier(ine.s), LAMBDA name :
             Try(consume_token(name.s, "("), LAMBDA lparen :
             Try(recovered(function_params(lparen.s), { ")" }),
                 LAMBDA params :
             Try(consume_token(params.s, ")"), LAMBDA rparen :
             Try(consume_keyword(rparen.s, "RETURNS"), LAMBDA returns_span :
             Try(parse_data_type(returns_span.s), LAMBDA return_type :
                 Ok(Assign(Assign(Assign(Assign(Assign(return_type.s,
                        "function_span", function_span.v),
                        "if_not_exists", ine.v),
                        "name", name.v),
                        "returns_span", returns_span.v),
                        "return_type", return_type.v),
                    "done")))))))))
    IN IF r.ok THEN Goto(r.s, "function_characteristics") ELSE Propagate(r)

\* One pass of the characteristic loop of parse_create_function.
function_characteristic(s) ==
    LET k == Kw(Token(s))
        push(r, variant) ==
            Continue(Push(r.s, "characteristics", FunctionCharacteristic(variant, r.v)))
    IN
    IF k = "LANGUAGE"
    THEN Try(consume_keywords(s, <<"LANGUAGE", "SQL">>), LAMBDA r :
             push(r, "LanguageSql"))
    ELSE IF k = "NOT"
    THEN Try(consume_keywords(s, <<"NOT", "DETERMINISTIC">>), LAMBDA r :
             push(r, "NotDeterministic"))
    ELSE IF k = "DETERMINISTIC"
    THEN Try(consume_keyword(s, "DETERMINISTIC"), LAMBDA r :
             push(r, "Deterministic"))
    ELSE IF k = "CONTAINS"
    THEN Try(consume_keywords(s, <<"CONTAINS", "SQL">>), LAMBDA r :
             push(r, "ContainsSql"))
    ELSE IF k = "NO"
    THEN Try(consume_keywords(s, <<"NO", "SQL">>), LAMBDA r :
             push(r, "NoSql"))
    ELSE IF k = "READS"
    THEN Try(consume_keywords(s, <<"READS", "SQL", "DATA">>), LAMBDA r :
             push(r, "ReadsSqlData"))
    ELSE IF k = "MODIFIES"
    THEN Try(consume_keywords(s, <<"MODIFIES", "SQL", "DATA">>), LAMBDA r :
             push(r, "ModifiesSqlData"))
    ELSE IF k = "COMMENT"
    THEN Try(consume_keyword(s, "COMMENT"), LAMBDA c :
         Try(consume_string(c.s), LAMBDA r :
             push(Ok(r.s, r.v.span), "Comment")))
    ELSE IF k = "SQL"
    THEN Try(consume_keywords(s, <<"SQL", "SECURITY">>), LAMBDA q :
             IF Kw(Token(q.s)) = "DEFINER"
             THEN Try(consume_keyword(q.s, "DEFINER"), LAMBDA r :
                      push(Ok(r.s, join_span(r.v, q.v)), "SqlSecurityDefiner"))
             ELSE IF Kw(Token(q.s)) = "USER"
             THEN Try(consume_keyword(q.s, "USER"), LAMBDA r :
                      push(Ok(r.s, join_span(r.v, q.v)), "SqlSecurityUser"))
             ELSE expected_failure(q.s, "'DEFINER' or 'USER'"))
    ELSE Break(s)

\* The statement after RETURN or FOR EACH ROW: one must be present.
body_statement(s) ==
    Try(parse_statement(s), LAMBDA v :
        IF v.v = None THEN expected_failure(v.s, "statement") ELSE v)

\* The characteristic loop and the rest of parse_create_function.
parse_function_characteristics(s) ==
    LET c == function_characteristic(s) IN
    IF ~c.ok THEN Propagate(c)
    ELSE IF c.v = "continue" THEN c.s
    ELSE LET r == Try(consume_keyword(c.s, "RETURN"), LAMBDA return_span :
                  Try(body_statement(return_span.s), LAMBDA return_ :
                      Ok(return_.s,
                         [ kind |-> "CreateFunction",
                           create_span |-> s.loc.create_span,
                           create_options |-> s.loc.create_options,
                           function_span |-> s.loc.function_span,
                           if_not_exists |-> s.loc.if_not_exists,
                           name |-> s.loc.name,
                           params |-> s.loc.params,
                           returns_span |-> s.loc.returns_span,
                           return_type |-> s.loc.return_type,
                           characteristics |-> s.loc.characteristics,
                           return_span |-> return_span.v,
                           return_ |-> return_.v ])))
         IN IF r.ok THEN Return(r.s, r.v) ELSE Propagate(r)

\* TriggerTime and TriggerEvent; each holds exactly its span.
trigger_time(s) ==
    LET k == Kw(Token(s)) IN
    IF k = "AFTER"
    THEN Try(consume_keyword(s, "AFTER"), LAMBDA r :
             Ok(r.s, [type |-> "After", span |-> r.v]))
    ELSE IF k = "BEFORE"
    THEN Try(consume_keyword(s, "BEFORE"), LAMBDA r :
             Ok(r.s, [type |-> "Before", span |-> r.v]))
    ELSE expected_failure(s, "'BEFORE' or 'AFTER'")

trigger_event(s) ==
    LET k == Kw(Token(s)) IN
    IF k = "UPDATE"
    THEN Try(consume_keyword(s, "UPDATE"), LAMBDA r :
             Ok(r.s, [type |-> "Update", span |-> r.v]))
    ELSE IF k = "INSERT"
    THEN Try(consume_keyword(s, "INSERT"), LAMBDA r :
             Ok(r.s, [type |-> "Insert", span |-> r.v]))
    ELSE IF k = "DELETE"
    THEN Try(consume_keyword(s, "DELETE"), LAMBDA r :
             Ok(r.s, [type |-> "Delete", span |-> r.v]))
    ELSE expected_failure(s, "'UPDATE' or 'INSERT' or 'DELETE'")

\* CreateTrigger::span
CreateTrigger_span(n) ==
    join_span(join_span(join_span(join_span(join_span(join_span(join_span(
    join_span(join_span(join_span(
        n.create_span,
        join_all(SpansOf(n.create_options))),
        n.trigger_span),
        n.if_not_exists),
        n.name.span),
        n.trigger_time.span),
        n.trigger_event.span),
        n.on_span),
        n.table.span),
        n.for_each_row_span),
        n.statement.span)

parse_create_trigger(s) ==
    LET r == Try(consume_keyword(s, "TRIGGER"), LAMBDA trigger_span :
             Try(if_not_exists(trigger_span.s), LAMBDA ine :
             Try(consume_plain_identifier(ine.s), LAMBDA name :
             Try(trigger_time(name.s), LAMBDA time :
             Try(trigger_event(time.s), LAMBDA event :
             Try(consume_keyword(event.s, "ON"), LAMBDA on_span :
             Try(consume_plain_identifier(on_span.s), LAMBDA table :
             Try(consume_keywords(table.s, <<"FOR", "EACH", "ROW">>),
                 LAMBDA for_each_row_span :
             Try(body_statement(for_each_row_span.s), LAMBDA statement :
                 Ok(statement.s,
                    [ kind |-> "CreateTrigger",
                      create_span |-> s.loc.create_span,
                      create_options |-> s.loc.create_options,
                      trigger_span |-> trigger_span.v,
                      if_not_exists |-> ine.v,
                      name |-> name.v,
                      trigger_time |-> time.v,
                      trigger_event |-> event.v,
                      on_span |-> on_span.v,
                      table |-> table.v,
                      for_each_row_span |-> for_each_row_span.v,
                      statement |-> statement.v ]))))))))))
    IN IF r.ok THEN Return(r.s, r.v) ELSE Propagate(r)

----------------------------------------------------------------------------
(* REPLACE (src/src/replace.rs)                                            *)

\* ReplaceFlag variants; each holds exactly its span.
ReplaceFlag(variant, sp) == [type |-> variant, span |-> sp]

\* The span of a VALUES clause (Span, Vec<Vec<Expression>>): the keyword
\* joined with every expression of every row.
RECURSIVE rows_span(_)
rows_span(rows) ==
    IF rows = <<>> THEN None
    ELSE join_span(join_all(SpansOf(rows[1])), rows_span(Tail(rows)))

Values(values_span, values_items) ==
    [values_span |-> values_span, rows |-> values_items,
     span |-> join_span(values_span, rows_span(values_items))]

\* The span of a SET clause (Span, Vec<(Identifier, Expression)>).
Set(set_span, kvps) ==
    [set_span |-> set_span, pairs |-> kvps,
     span |-> join_span(set_span, join_all(SpansOf(kvps)))]

\* Replace::span
Replace_span(n) ==
    join_span(join_span(join_span(join_span(join_span(join_span(
        n.replace_span,
        join_all(SpansOf(n.flags))),
        n.into_span),
        join_all(SpansOf(n.table))),
        opt_span(n.values)),
        join_all(SpansOf(n.columns))),
        opt_span(n.select))

\* The Replace built from the locals of parse_replace.
Replace(l, values, select, set) ==
    [ kind |-> "Replace",
      flags |-> l.flags,
      replace_span |-> l.replace_span,
      table |-> l.table,
      into_span |-> l.into_span,
      values |-> values,
      select |-> select,
      columns |-> l.columns,
      set |-> set ]

\* parse_replace, entry: the REPLACE keyword.
parse_replace(s) ==
    LET r == consume_keyword(s, "REPLACE") IN
    IF ~r.ok THEN Propagate(r)
    ELSE Goto(Assign(r.s, "replace_span", r.v), "replace_flags")

\* The flag loop that looks at the flag keyword and does not consume it.
parse_replace_flags_peeking(s) ==
    LET k == Kw(Token(s)) IN
    IF k = "LOW_PRIORITY"
    THEN Push(s, "flags", ReplaceFlag("LowPriority", span(s)))
    ELSE IF k = "DELAYED"
    THEN Push(s, "flags", ReplaceFlag("Delayed", span(s)))
    ELSE Goto(s, "replace_table")

\* One pass of the flag loop.
parse_replace_flags(s) ==
    LET k == Kw(Token(s))
        r == IF k = "LOW_PRIORITY"
             THEN Try(consume_keyword(s, "LOW_PRIORITY"), LAMBDA f :
                      Continue(Push(f.s, "flags", ReplaceFlag("LowPriority", f.v))))
             ELSE IF k = "DELAYED"
             THEN Try(consume_keyword(s, "DELAYED"), LAMBDA f :
                      Continue(Push(f.s, "flags", ReplaceFlag("Delayed", f.v))))
             ELSE Break(s)
    IN IF ~r.ok THEN Propagate(r)
       ELSE IF r.v = "continue" THEN r.s
       ELSE Goto(r.s, "replace_table")

\* The parts of the table name after the first: one per period.
RECURSIVE table_parts(_)
table_parts(s) ==
    LET period == skip_token(s, ".") IN
    IF period.v = None THEN Ok(period.s, "done")
    ELSE Try(consume_plain_identifier(period.s), LAMBDA part :
             table_parts(Push(part.s, "table", part.v)))

\* The column loop inside the column scope.
RECURSIVE replace_columns(_)
replace_columns(s) ==
    Try(consume_plain_identifier(s), LAMBDA column :
        LET pushed == Push(column.s, "columns", column.v)
            comma == skip_token(pushed, ",")
        IN IF comma.v = None THEN Ok(comma.s, "done")
           ELSE replace_columns(comma.s))

\* parse_replace from INTO on, with INTO required instead of probed.
parse_replace_table_into(s) ==
    LET r == Try(consume_keyword(s, "INTO"), LAMBDA into_span :
             Try(consume_plain_identifier(Assign(into_span.s, "into_span", into_span.v)),
                 LAMBDA first :
             Try(table_parts(Assign(first.s, "table", <<first.v>>)), LAMBDA parts :
                 LET lparen == skip_token(parts.s, "(") IN
                 IF lparen.v # None
                 THEN Try(recovered(replace_columns(lparen.s), { ")" }),
                          LAMBDA columns :
                          consume_token(columns.s, ")"))
                 ELSE lparen)))
    IN IF r.ok THEN Goto(r.s, "replace_dispatch") ELSE Propagate(r)

\* parse_replace from INTO to the end of the column list.
parse_replace_table(s) ==
    LET into_span == skip_keyword(s, "INTO")
        r == Try(consume_plain_identifier(Assign(into_span.s, "into_span", into_span.v)),
                 LAMBDA first :
             Try(table_parts(Assign(first.s, "table", <<first.v>>)), LAMBDA parts :
                 LET lparen == skip_token(parts.s, "(") IN
                 IF lparen.v # None
                 THEN Try(recovered(replace_columns(lparen.s), { ")" }),
                          LAMBDA columns :
                          consume_token(columns.s, ")"))
                 ELSE lparen))
    IN IF r.ok THEN Goto(r.s, "replace_dispatch") ELSE Propagate(r)

\* The assignment loop of the SET clause.
RECURSIVE replace_set(_, _)
replace_set(s, kvps) ==
    Try(consume_plain_identifier(s), LAMBDA col :
    Try(consume_token(col.s, "="), LAMBDA eq :
    Try(parse_expression(eq.s), LAMBDA val :
        LET pushed == Append(kvps, [col |-> col.v.value, val |-> val.v.value,
                                    span |-> join_span(col.v.span, val.v.span)])
            comma == skip_token(val.s, ",")
        IN IF comma.v = None THEN Ok(comma.s, pushed)
           ELSE replace_set(comma.s, pushed))))

\* The SELECT arm that returns a Replace without a clause when the select
\* does not parse.
replace_select_lenient(s) ==
    LET r == parse_select(s) IN
    IF ~r.ok THEN Return(r.s, Replace(r.s.loc, None, None, None))
    ELSE Return(r.s, Replace(r.s.loc, None, r.v, None))

\* The SELECT arm of the dispatch.
replace_select(s) ==
    LET r == parse_select(s) IN
    IF ~r.ok THEN Propagate(r)
    ELSE Return(r.s, Replace(r.s.loc, None, r.v, None))

\* The VALUE | VALUES arm, up to the row loop.
replace_values(s) ==
    LET values_span == consume(s) IN
    Goto(Assign(Assign(values_span.s, "values_span", values_span.v),
                "values_items", <<>>),
         "replace_values")

\* replace_set_clause with the two spans of the issue exchanged.
replace_set_clause_swapped(s) ==
    LET r == Try(consume_keyword(s, "SET"), LAMBDA set_span :
             Try(replace_set(set_span.s, <<>>), LAMBDA kvps :
                 LET cs == join_all(SpansOf(kvps.s.loc.columns))
                     told == IF cs # None
                             THEN PushIssue(kvps.s,
                                      Frag(IssueErr("Columns may not be used here", set_span.v),
                                           "Together with SET", cs))
                             ELSE kvps.s
                 IN Ok(told, Set(set_span.v, kvps.v))))
    IN IF ~r.ok THEN Propagate(r)
       ELSE Return(r.s, Replace(r.s.loc, None, None, r.v))

\* replace_set_clause that ends the production with the issue it logs.
replace_set_clause_aborting(s) ==
    LET r == Try(consume_keyword(s, "SET"), LAMBDA set_span :
             Try(replace_set(set_span.s, <<>>), LAMBDA kvps :
                 LET cs == join_all(SpansOf(kvps.s.loc.columns)) IN
                 IF cs # None
                 THEN expected_failure(
                          PushIssue(kvps.s,
                              Frag(IssueErr("Columns may not be used here", cs),
                                   "Together with SET", set_span.v)),
                          "Columns may not be used here")
                 ELSE Ok(kvps.s, Set(set_span.v, kvps.v))))
    IN IF ~r.ok THEN Propagate(r)
       ELSE Return(r.s, Replace(r.s.loc, None, None, r.v))

\* The SET arm: the assignments, then the issue when columns were given.
replace_set_clause(s) ==
    LET r == Try(consume_keyword(s, "SET"), LAMBDA set_span :
             Try(replace_set(set_span.s, <<>>), LAMBDA kvps :
                 LET cs == join_all(SpansOf(kvps.s.loc.columns))
                     told == IF cs # None
                             THEN PushIssue(kvps.s,
                                      Frag(IssueErr("Columns may not be used here", cs),
                                           "Together with SET", set_span.v))
                             ELSE kvps.s
                 IN Ok(told, Set(set_span.v, kvps.v))))
    IN IF ~r.ok THEN Propagate(r)
       ELSE Return(r.s, Replace(r.s.loc, None, None, r.v))

\* The arm of any other token, raising the failure instead of logging it.
replace_unmatched_failing(s) ==
    Propagate(expected_failure(s, "Expected VALUE, VALUES, SELECT or SET"))

\* The arm of any other token.
replace_unmatched(s) ==
    LET told == expected_error(s, "Expected VALUE, VALUES, SELECT or SET") IN
    Return(told, Replace(told.loc, None, None, None))

\* parse_replace, the dispatch on SELECT, VALUE(S) or SET.
parse_replace_dispatch(s) ==
    LET k == Kw(Token(s)) IN
    IF k = "SELECT" THEN replace_select(s)
    ELSE IF k \in { "VALUE", "VALUES" } THEN replace_values(s)
    ELSE IF k = "SET" THEN replace_set_clause(s)
    ELSE replace_unmatched(s)

\* values_row that takes one expression and does not look for a comma.
values_row_single(s) ==
    Try(parse_expression(s), LAMBDA e : Ok(Push(e.s, "vals", e.v), "done"))

\* The expression loop inside the scope of one VALUES row.
RECURSIVE values_row(_)
values_row(s) ==
    Try(parse_expression(s), LAMBDA e :
        LET pushed == Push(e.s, "vals", e.v)
            comma == skip_token(pushed, ",")
        IN IF comma.v = None THEN Ok(comma.s, "done")
           ELSE values_row(comma.s))

\* One pass of the row loop of the VALUES clause, and the node after it.
parse_replace_values(s) ==
    LET r == Try(consume_token(Assign(s, "vals", <<>>), "("), LAMBDA lparen :
             Try(recovered(values_row(lparen.s), { ")" }), LAMBDA row :
             Try(consume_token(row.s, ")"), LAMBDA rparen :
                 LET pushed == Push(rparen.s, "values_items", rparen.s.loc.vals)
                     comma == skip_token(pushed, ",")
                 IN IF comma.v = None THEN Break(comma.s) ELSE Continue(comma.s))))
    IN IF ~r.ok THEN Propagate(r)
       ELSE IF r.v = "continue" THEN r.s
       ELSE Return(r.s, Replace(r.s.loc,
                                Values(r.s.loc.values_span, r.s.loc.values_items),
                                None, None))

\* Spanned::span of the node a production returned.
NodeSpan(n) ==
    IF n.kind = "CreateTable" THEN CreateTable_span(n)
    ELSE IF n.kind = "CreateView" THEN CreateView_span(n)
    ELSE IF n.kind = "CreateFunction" THEN CreateFunction_span(n)
    ELSE IF n.kind = "CreateTrigger" THEN CreateTrigger_span(n)
    ELSE Replace_span(n)

----------------------------------------------------------------------------
(* The productions as one step function                                    *)

\* The code that runs next in a parse at position s.pc.
Step(s) ==
    CASE s.pc = "parse_create" -> parse_create(s)
      [] s.pc = "create_options" -> parse_create_options(s)
      [] s.pc = "create_dispatch" -> parse_create_dispatch(s)
      [] s.pc = "create_table" -> parse_create_table(s)
      [] s.pc = "create_definitions" -> parse_create_definitions(s)
      [] s.pc = "table_options" -> parse_table_options(s)
      [] s.pc = "create_view" -> parse_create_view(s)
      [] s.pc = "create_function" -> parse_create_function(s)
      [] s.pc = "function_characteristics" -> parse_function_characteristics(s)
      [] s.pc = "create_trigger" -> parse_create_trigger(s)
      [] s.pc = "parse_replace" -> parse_replace(s)
      [] s.pc = "replace_flags" -> parse_replace_flags(s)
      [] s.pc = "replace_table" -> parse_replace_table(s)
      [] s.pc = "replace_dispatch" -> parse_replace_dispatch(s)
      [] s.pc = "replace_values" -> parse_replace_values(s)
      [] OTHER -> s

\* A production run to its return.
RECURSIVE Run(_)
Run(s) == IF s.pc = "done" THEN s ELSE Run(Step(s))

----------------------------------------------------------------------------
(* Inputs: statements as written, and their token streams                  *)

MaxModifiers == 3
MaxColumns == 2
MaxOptions == 2
MaxCharacteristics == 1
MaxFlags == 2
MaxParts == 2
MaxRows == 2
MaxItems == 2

\* All sequences over S of length lo..hi.
SeqsOf(S, lo, hi) == UNION { [1..n -> S] : n \in lo..hi }

RECURSIVE Flatten(_)
Flatten(ss) == IF ss = <<>> THEN <<>> ELSE ss[1] \o Flatten(Tail(ss))

\* The token sequences ss separated by the token sep.
RECURSIVE Separated(_, _)
Separated(ss, sep) ==
    IF ss = <<>> THEN <<>>
    ELSE IF Len(ss) = 1 THEN ss[1]
    ELSE ss[1] \o <<sep>> \o Separated(Tail(ss), sep)

Each(items, f(_)) == [i \in 1..Len(items) |-> f(items[i])]

ModifierNames ==
    { "OrReplace", "Temporary", "AlgorithmMerge", "AlgorithmUndefined",
      "AlgorithmTempTable", "Definer", "SqlSecurityDefiner", "SqlSecurityUser" }

ModifierTokens(m) ==
    CASE m = "OrReplace" -> <<"OR", "REPLACE">>
      [] m = "Temporary" -> <<"TEMPORARY">>
      [] m = "AlgorithmMerge" -> <<"ALGORITHM", "=", "MERGE">>
      [] m = "AlgorithmUndefined" -> <<"ALGORITHM", "=", "UNDEFINED">>
      [] m = "AlgorithmTempTable" -> <<"ALGORITHM", "=", "TEMPTABLE">>
      [] m = "Definer" -> <<"DEFINER", "=", "u", "@", "h">>
      [] m = "SqlSecurityDefiner" -> <<"SQL", "SECURITY", "DEFINER">>
      [] m = "SqlSecurityUser" -> <<"SQL", "SECURITY", "USER">>

OptionNames ==
    { "Engine=", "Engine", "DefaultCharSet", "DefaultCollate=", "CharSet=",
      "Collate", "RowFormat=", "Comment" }

OptionTokens(o) ==
    CASE o = "Engine=" -> <<"ENGINE", "=", "InnoDB">>
      [] o = "Engine" -> <<"ENGINE", "ENGINE">>
      [] o = "DefaultCharSet" -> <<"DEFAULT", "CHARSET", "utf8">>
      [] o = "DefaultCollate=" -> <<"DEFAULT", "COLLATE", "=", "utf8">>
      [] o = "CharSet=" -> <<"CHARSET", "=", "utf8">>
      [] o = "Collate" -> <<"COLLATE", "utf8">>
      [] o = "RowFormat=" -> <<"ROW_FORMAT", "=", "FORMAT">>
      [] o = "Comment" -> <<"COMMENT", "'s'">>

\* The variant and the value an option is written with.
OptionVariant(o) ==
    CASE o \in { "Engine=", "Engine" } -> "Engine"
      [] o = "DefaultCharSet" -> "DefaultCharSet"
      [] o = "DefaultCollate=" -> "DefaultCollate"
      [] o = "CharSet=" -> "CharSet"
      [] o = "Collate" -> "Collate"
      [] o = "RowFormat=" -> "RowFormat"
      [] o = "Comment" -> "Comment"

OptionValue(o) == OptionTokens(o)[Len(OptionTokens(o))]

CharacteristicNames ==
    { "LanguageSql", "NotDeterministic", "Deterministic", "ContainsSql",
      "NoSql", "ReadsSqlData", "ModifiesSqlData", "Comment",
      "SqlSecurityDefiner", "SqlSecurityUser" }

CharacteristicTokens(c) ==
    CASE c = "LanguageSql" -> <<"LANGUAGE", "SQL">>
      [] c = "NotDeterministic" -> <<"NOT", "DETERMINISTIC">>
      [] c = "Deterministic" -> <<"DETERMINISTIC">>
      [] c = "ContainsSql" -> <<"CONTAINS", "SQL">>
      [] c = "NoSql" -> <<"NO", "SQL">>
      [] c = "ReadsSqlData" -> <<"READS", "SQL", "DATA">>
      [] c = "ModifiesSqlData" -> <<"MODIFIES", "SQL", "DATA">>
      [] c = "Comment" -> <<"COMMENT", "'s'">>
      [] c = "SqlSecurityDefiner" -> <<"SQL", "SECURITY", "DEFINER">>
      [] c = "SqlSecurityUser" -> <<"SQL", "SECURITY", "USER">>

FlagNames == { "LowPriority", "Delayed" }
FlagTokens(f) == IF f = "LowPriority" THEN <<"LOW_PRIORITY">> ELSE <<"DELAYED">>

\* Identifier-shaped tokens that are not reserved.
Names == { "t", "ENGINE", "quoted_select" }
ColumnNames == { "a", "FORMAT" }
\* Tokens that are expressions.
Expressions == { "1", "'s'", "VALUE" }

\* A statement as written; the fields a kind does not use stay as here.
Blank ==
    [ kind |-> "table", mods |-> <<>>, ine |-> FALSE, qualifier |-> <<>>,
      name |-> "t",
      cols |-> <<>>, opts |-> <<>>, chars |-> <<>>, delim |-> FALSE,
      time |-> "BEFORE", event |-> "UPDATE", expr |-> "1",
      flags |-> <<>>, into |-> TRUE, table |-> <<>>, columns |-> <<>>,
      clause |-> "none", rows |-> <<>>, pairs |-> <<>> ]

IfNotExistsTokens(w) == IF w.ine THEN <<"IF", "NOT", "EXISTS">> ELSE <<>>
DelimiterTokens(w) == IF w.delim THEN <<Delimiter>> ELSE <<>>
\* The name of a CREATE statement: the parts written before it, each with
\* its period, then the name.
NameTokens(w) == Flatten(Each(w.qualifier, LAMBDA part : <<part, ".">>)) \o <<w.name>>
ColumnTokens(w) == <<"(">> \o Separated(w.cols, ",") \o <<")">>

\* The tokens of the clause of a REPLACE.
ClauseTokens(w) ==
    CASE w.clause = "values" ->
            <<"VALUES">> \o
            Separated(Each(w.rows, LAMBDA row :
                <<"(">> \o Separated(Each(row, LAMBDA e : <<e>>), ",") \o <<")">>), ",")
      [] w.clause = "select" -> <<"SELECT", w.expr>>
      [] w.clause = "set" ->
            <<"SET">> \o
            Separated(Each(w.pairs, LAMBDA kv : <<kv[1], "=", kv[2]>>), ",")
      [] OTHER -> <<>>

\* The token stream of a statement as written.
Render(w) ==
    IF w.kind = "replace"
    THEN <<"REPLACE">> \o Flatten(Each(w.flags, FlagTokens))
         \o (IF w.into THEN <<"INTO">> ELSE <<>>)
         \o Separated(Each(w.table, LAMBDA part : <<part>>), ".")
         \o (IF w.columns = <<>> THEN <<>>
             ELSE <<"(">> \o Separated(Each(w.columns, LAMBDA c : <<c>>), ",") \o <<")">>)
         \o ClauseTokens(w) \o DelimiterTokens(w)
    ELSE <<"CREATE">> \o Flatten(Each(w.mods, ModifierTokens)) \o
         ( CASE w.kind = "table" ->
                  <<"TABLE">> \o IfNotExistsTokens(w) \o NameTokens(w) \o ColumnTokens(w)
                  \o Flatten(Each(w.opts, OptionTokens))
             [] w.kind = "view" ->
                  <<"VIEW">> \o IfNotExistsTokens(w) \o NameTokens(w)
                  \o <<"AS", "SELECT", w.expr>>
             [] w.kind = "function" ->
                  <<"FUNCTION">> \o IfNotExistsTokens(w) \o NameTokens(w) \o ColumnTokens(w)
                  \o <<"RETURNS", "INT">> \o Flatten(Each(w.chars, CharacteristicTokens))
                  \o <<"RETURN", "SELECT", w.expr>>
             [] w.kind = "trigger" ->
                  <<"TRIGGER">> \o IfNotExistsTokens(w) \o NameTokens(w)
                  \o <<w.time, w.event, "ON", "t", "FOR", "EACH", "ROW",
                       "SELECT", w.expr>> )
         \o DelimiterTokens(w)


ColumnDefs == { <<"a", "INT">>, <<"b", "TEXT">>, <<"FORMAT", "INT">> }

\* n expressions, taken in turn from the expression tokens.
ExpressionRow(n) == [i \in 1..n |-> <<"1", "'s'", "VALUE">>[((i - 1) % 3) + 1]]

TableNames == SeqsOf({ "db", "t2", "ENGINE" }, 1, MaxParts)

\* CREATE TABLE as written: every name, column list and IF NOT EXISTS, and
\* every option tail.
Tables ==
    { [Blank EXCEPT !.kind = "table", !.ine = i, !.name = n, !.cols = cs, !.opts = os] :
        i \in BOOLEAN, n \in Names, cs \in SeqsOf(ColumnDefs, 1, MaxColumns),
        os \in { <<>>, <<"Engine=">> } }
    \cup
    { [Blank EXCEPT !.kind = "table", !.ine = TRUE, !.cols = << <<"a", "INT">> >>,
                    !.opts = os, !.delim = d] :
        os \in SeqsOf(OptionNames, 0, MaxOptions), d \in BOOLEAN }

Views ==
    { [Blank EXCEPT !.kind = "view", !.ine = i, !.name = n, !.expr = e] :
        i \in BOOLEAN, n \in Names, e \in Expressions }

Functions ==
    { [Blank EXCEPT !.kind = "function", !.ine = i, !.name = "f", !.cols = cs] :
        i \in BOOLEAN, cs \in SeqsOf(ColumnDefs, 1, MaxColumns) }
    \cup
    { [Blank EXCEPT !.kind = "function", !.name = "f", !.cols = << <<"a", "INT">> >>,
                    !.chars = cs, !.delim = d] :
        cs \in SeqsOf(CharacteristicNames, 0, MaxCharacteristics), d \in BOOLEAN }

Triggers ==
    { [Blank EXCEPT !.kind = "trigger", !.ine = i, !.name = "g", !.time = tt, !.event = ev] :
        i \in BOOLEAN, tt \in { "BEFORE", "AFTER" },
        ev \in { "UPDATE", "INSERT", "DELETE" } }

\* One statement of each CREATE kind, to be written after modifiers.
Bodies ==
    { [Blank EXCEPT !.kind = "table", !.cols = << <<"a", "INT">> >>, !.opts = <<"Engine=">>],
      [Blank EXCEPT !.kind = "view", !.name = "v"],
      [Blank EXCEPT !.kind = "function", !.name = "f", !.cols = << <<"a", "INT">> >>],
      [Blank EXCEPT !.kind = "trigger", !.name = "g"] }

\* The modifiers that are written in sequences of two and more.
SequencedModifiers ==
    { "OrReplace", "Temporary", "AlgorithmMerge", "Definer", "SqlSecurityDefiner",
      "SqlSecurityUser" }

\* CREATE with modifiers as written: every body after at most one modifier,
\* the view after every longer sequence.
Modified ==
    { [b EXCEPT !.mods = ms] : b \in Bodies, ms \in SeqsOf(ModifierNames, 0, 1) }
    \cup
    { [Blank EXCEPT !.kind = "view", !.name = "v", !.mods = ms] :
        ms \in SeqsOf(SequencedModifiers, 2, MaxModifiers) }

\* CREATE with a name of two and more parts joined by periods.
Qualified ==
    { [b EXCEPT !.qualifier = q, !.ine = i] :
        b \in Bodies, q \in SeqsOf({ "db", "ENGINE" }, 1, MaxParts - 1), i \in BOOLEAN }

Replaces ==
    { [Blank EXCEPT !.kind = "replace", !.flags = fs, !.into = i, !.table = tn,
                    !.clause = "values", !.rows = <<ExpressionRow(1)>>] :
        fs \in SeqsOf(FlagNames, 0, MaxFlags), i \in BOOLEAN, tn \in TableNames }
    \cup
    { [Blank EXCEPT !.kind = "replace", !.table = <<"t2">>, !.into = i, !.delim = d,
                    !.clause = "values", !.rows = [r \in 1..n |-> ExpressionRow(shape[r])]] :
        i \in BOOLEAN, d \in BOOLEAN,
        n \in 1..MaxRows, shape \in [1..MaxRows -> 1..MaxItems] }
    \cup
    { [Blank EXCEPT !.kind = "replace", !.table = <<"t">>, !.columns = cs,
                    !.clause = c, !.pairs = [k \in 1..n |-> <<"a", ExpressionRow(k)[k]>>],
                    !.rows = <<ExpressionRow(2)>>] :
        cs \in SeqsOf(ColumnNames, 0, MaxColumns),
        c \in { "values", "select", "set", "none" }, n \in 1..MaxItems }

\* The statements that are also parsed with one token changed.
Edited ==
    { [Blank EXCEPT !.kind = "table", !.ine = TRUE, !.delim = TRUE,
                    !.cols = << <<"a", "INT">>, <<"b", "TEXT">> >>,
                    !.opts = <<"Engine=", "Comment">>],
      [Blank EXCEPT !.kind = "table", !.mods = <<"Definer", "AlgorithmMerge">>,
                    !.cols = << <<"a", "INT">> >>],
      [Blank EXCEPT !.kind = "view", !.name = "v", !.ine = TRUE,
                    !.mods = <<"OrReplace", "SqlSecurityUser">>],
      [Blank EXCEPT !.kind = "function", !.name = "f", !.delim = TRUE,
                    !.cols = << <<"a", "INT">>, <<"b", "TEXT">> >>,
                    !.chars = <<"Deterministic">>],
      [Blank EXCEPT !.kind = "trigger", !.name = "g", !.ine = TRUE],
      [Blank EXCEPT !.kind = "replace", !.table = <<"db", "t2">>, !.delim = TRUE,
                    !.flags = <<"Delayed">>, !.columns = <<"a", "b">>,
                    !.clause = "values",
                    !.rows = <<ExpressionRow(2), ExpressionRow(2)>>],
      [Blank EXCEPT !.kind = "replace", !.table = <<"t">>, !.columns = <<"a", "b">>,
                    !.clause = "set", !.pairs = << <<"a", "1">>, <<"b", "'s'">> >>],
      [Blank EXCEPT !.kind = "replace", !.table = <<"t">>, !.into = FALSE,
                    !.clause = "select"] }

Written ==
    Tables \cup Views \cup Functions \cup Triggers \cup Modified \cup Replaces
    \cup Edited \cup Qualified

\* The tokens an edit can put in.
Alphabet ==
    Punctuation \cup
    { "1", "'s'", "x", "quoted_select", "SELECT", "REPLACE", "IF", "VALUES",
      "VALUE", "SET", "ENGINE", "TABLE", "VIEW", "INT", "NOT", "DEFINER", "USER" }

NoEdit == [op |-> "none", at |-> 0, tok |-> ""]

\* The one-token edits of a token stream of length n.
Edits(n) ==
    { [op |-> "replace", at |-> i, tok |-> x] : i \in 1..n, x \in Alphabet }
    \cup { [op |-> "insert", at |-> i, tok |-> x] : i \in 1..n, x \in Alphabet }
    \cup { [op |-> "delete", at |-> i, tok |-> ""] : i \in 1..n }

\* The token stream ts after edit m.
Edit(ts, m) ==
    CASE m.op = "replace" -> [ts EXCEPT ![m.at] = m.tok]
      [] m.op = "insert" ->
            SubSeq(ts, 1, m.at - 1) \o <<m.tok>> \o SubSeq(ts, m.at, Len(ts))
      [] m.op = "delete" ->
            SubSeq(ts, 1, m.at - 1) \o SubSeq(ts, m.at + 1, Len(ts))
      [] OTHER -> ts

\* The source offsets a statement can start at.
Offsets == { 0, 4 }

\* The production the statement dispatcher enters for a statement.
Entry(w) == IF w.kind = "replace" THEN "parse_replace" ELSE "parse_create"

----------------------------------------------------------------------------
(* The state machine                                                       *)

Cur ==
    [ toks |-> toks, base |-> base, pos |-> pos, issues |-> issues,
      pc |-> pc, loc |-> loc, out |-> out, failures |-> failures ]

\* The parse moves to state s; the input stays as it is.
Becomes(s) ==
    /\ pos' = s.pos
    /\ issues' = s.issues
    /\ pc' = s.pc
    /\ loc' = s.loc
    /\ out' = s.out
    /\ failures' = s.failures
    /\ UNCHANGED <<written, mutation, toks, base>>

Init ==
    /\ written \in Written
    /\ mutation \in (IF written \in Edited THEN Edits(Len(Render(written))) ELSE {})
                    \cup { NoEdit }
    /\ toks = Edit(Render(written), mutation)
    /\ base \in Offsets
    /\ pos = 1
    /\ issues = <<>>
    /\ pc = Entry(written)
    /\ loc = LocInit
    /\ out = [status |-> "running", node |-> None, error |-> NoError]
    /\ failures = 0

ParseCreate == pc = "parse_create" /\ Becomes(parse_create(Cur))
ParseCreateOptions == pc = "create_options" /\ Becomes(parse_create_options(Cur))
ParseCreateDispatch == pc = "create_dispatch" /\ Becomes(parse_create_dispatch(Cur))
ParseCreateTable == pc = "create_table" /\ Becomes(parse_create_table(Cur))
ParseCreateDefinitions == pc = "create_definitions" /\ Becomes(parse_create_definitions(Cur))
ParseTableOptions == pc = "table_options" /\ Becomes(parse_table_options(Cur))
ParseCreateView == pc = "create_view" /\ Becomes(parse_create_view(Cur))
ParseCreateFunction == pc = "create_function" /\ Becomes(parse_create_function(Cur))
ParseFunctionCharacteristics ==
    pc = "function_characteristics" /\ Becomes(parse_function_characteristics(Cur))
ParseCreateTrigger == pc = "create_trigger" /\ Becomes(parse_create_trigger(Cur))
ParseReplace == pc = "parse_replace" /\ Becomes(parse_replace(Cur))
ParseReplaceFlags == pc = "replace_flags" /\ Becomes(parse_replace_flags(Cur))
ParseReplaceTable == pc = "replace_table" /\ Becomes(parse_replace_table(Cur))
ParseReplaceDispatch == pc = "replace_dispatch" /\ Becomes(parse_replace_dispatch(Cur))
ParseReplaceValues == pc = "replace_values" /\ Becomes(parse_replace_values(Cur))

Next ==
    \/ ParseCreate
    \/ ParseCreateOptions
    \/ ParseCreateDispatch
    \/ ParseCreateTable
    \/ ParseCreateDefinitions
    \/ ParseTableOptions
    \/ ParseCreateView
    \/ ParseCreateFunction
    \/ ParseFunctionCharacteristics
    \/ ParseCreateTrigger
    \/ ParseReplace
    \/ ParseReplaceFlags
    \/ ParseReplaceTable
    \/ ParseReplaceDispatch
    \/ ParseReplaceValues

Spec == Init /\ [][Next]_vars

\* The words whose tokens carry every value of the Keyword enumeration: each
\* keyword by its name, NOT_A_KEYWORD by any other word, QUOTED_IDENTIFIER by
\* a quoted identifier.
Words == Keywords \cup { "x" } \cup QuotedIdentifiers

\* One identifier-shaped token is classified.
KeywordInit ==
    /\ written = Blank
    /\ mutation = NoEdit
    /\ toks \in { <<w>> : w \in Words }
    /\ base = 0
    /\ pos = 1
    /\ issues = <<>>
    /\ pc = "facets"
    /\ loc = LocInit
    /\ out = [status |-> "running", node |-> None, error |-> NoError]
    /\ failures = 0

\* The facets of the keyword of the token are taken.
Facets ==
    /\ pc = "facets"
    /\ pc' = "done"
    /\ out' = [ status |-> "facets",
                keyword |-> Kw(toks[1]),
                reserved |-> reserved(Kw(toks[1])),
                expr_ident |-> expr_ident(Kw(toks[1])) ]
    /\ UNCHANGED <<written, mutation, toks, base, pos, issues, loc, failures>>

KeywordSpec == KeywordInit /\ [][Facets]_vars

\* The parse has returned.
Done == pc = "done"
Returned == Done /\ out.status = "ok"
Failed == Done /\ out.status = "err"

----------------------------------------------------------------------------
(* Properties                                                              *)

\* The statement was parsed as written, with no token changed.
AsWritten == mutation = NoEdit

\* The name of the statement was written as one identifier.
PlainName == written.qualifier = <<>>

\* The index in toks of the only token tok.
IndexOf(tok) == CHOOSE i \in 1..Len(toks) : toks[i] = tok

\* C1: a well-formed CREATE TABLE returns a CreateTable whose if_not_exists is
\* present exactly when IF NOT EXISTS was written, with one definition per
\* written column and one option per written option, each in source order,
\* and logs no issue.
C1_CreateTableAsWritten ==
    (Done /\ AsWritten /\ PlainName /\ written.kind = "table") =>
        /\ out.status = "ok"
        /\ out.node.kind = "CreateTable"
        /\ (out.node.if_not_exists # None) <=> written.ine
        /\ out.node.identifier.value = written.name
        /\ Len(out.node.create_definitions) = Len(written.cols)
        /\ \A i \in 1..Len(written.cols) :
              /\ out.node.create_definitions[i].identifier = written.cols[i][1]
              /\ out.node.create_definitions[i].data_type = written.cols[i][2]
        /\ Len(out.node.options) = Len(written.opts)
        /\ \A i \in 1..Len(written.opts) :
              /\ out.node.options[i].type = OptionVariant(written.opts[i])
              /\ out.node.options[i].value = OptionValue(written.opts[i])
        /\ issues = <<>>

\* CREATE TABLE IF NOT EXISTS t (a INT) ENGINE=InnoDB has been parsed.
C1_Witness ==
    /\ Returned
    /\ toks = <<"CREATE", "TABLE", "IF", "NOT", "EXISTS", "t", "(", "a", "INT", ")",
                "ENGINE", "=", "InnoDB">>
    /\ out.node.if_not_exists # None
    /\ Len(out.node.create_definitions) = 1
    /\ out.node.options[1].type = "Engine"
    /\ out.node.options[1].value = "InnoDB"

\* C2: a well-formed REPLACE [INTO] name VALUES (..),(..) without a column
\* list returns a Replace with the name parts in table, one row per group and
\* one expression per item in source order, no select, no set, no columns,
\* and logs no issue.
C2_ReplaceValuesAsWritten ==
    (Done /\ AsWritten /\ written.kind = "replace" /\ written.clause = "values"
          /\ written.columns = <<>>) =>
        /\ out.status = "ok"
        /\ out.node.kind = "Replace"
        /\ Len(out.node.table) = Len(written.table)
        /\ \A i \in 1..Len(written.table) : out.node.table[i].value = written.table[i]
        /\ out.node.values # None
        /\ Len(out.node.values.rows) = Len(written.rows)
        /\ \A i \in 1..Len(written.rows) :
              /\ Len(out.node.values.rows[i]) = Len(written.rows[i])
              /\ \A j \in 1..Len(written.rows[i]) :
                    out.node.values.rows[i][j].value = written.rows[i][j]
        /\ out.node.select = None
        /\ out.node.set = None
        /\ out.node.columns = <<>>
        /\ issues = <<>>

\* REPLACE INTO t2 VALUES (1,'s'),(1,'s') has been parsed.
C2_Witness ==
    /\ Returned
    /\ toks = <<"REPLACE", "INTO", "t2", "VALUES", "(", "1", ",", "'s'", ")", ",",
                "(", "1", ",", "'s'", ")">>
    /\ Len(out.node.values.rows) = 2
    /\ Len(out.node.values.rows[2]) = 2

\* C3: a REPLACE with a column list and a well-formed SET clause logs exactly
\* one issue, "Columns may not be used here" at the span of the columns with
\* the single fragment "Together with SET" at the SET keyword, and returns a
\* Replace whose set holds one pair per assignment in source order.
C3_ColumnsWithSet ==
    (Done /\ AsWritten /\ written.kind = "replace" /\ written.clause = "set"
          /\ written.columns # <<>>) =>
        /\ out.status = "ok"
        /\ issues =
             << [ level |-> "error",
                  message |-> "Columns may not be used here",
                  span |-> << SpanAt(base, IndexOf("(") + 1)[1],
                              SpanAt(base, IndexOf(")") - 1)[2] >>,
                  fragments |-> << [ message |-> "Together with SET",
                                     span |-> SpanAt(base, IndexOf("SET")) ] >> ] >>
        /\ out.node.set # None
        /\ Len(out.node.set.pairs) = Len(written.pairs)
        /\ \A i \in 1..Len(written.pairs) :
              /\ out.node.set.pairs[i].col = written.pairs[i][1]
              /\ out.node.set.pairs[i].val = written.pairs[i][2]

\* REPLACE INTO t (a) SET a=1 has been parsed.
C3_Witness ==
    /\ Returned
    /\ toks = <<"REPLACE", "INTO", "t", "(", "a", ")", "SET", "a", "=", "1">>
    /\ Len(issues) = 1
    /\ Len(out.node.set.pairs) = 1


\* Position i of the token stream ts lies between a '(' and its ')'.
InList(ts, i) ==
    \E l \in 1..(i - 1), r \in (i + 1)..Len(ts) :
        /\ ts[l] = "("
        /\ ts[r] = ")"
        /\ \A k \in (l + 1)..(r - 1) : ts[k] \notin { "(", ")" }

\* The edit is one syntax error inside a list of a statement that is valid
\* without it: a comma between two items is missing, the first token of an
\* item is a reserved word that is neither an identifier nor an expression,
\* or a stray identifier follows an item.  toks[mutation.at] is the token
\* at which the statement stops being valid.
OneErrorInList ==
    /\ mutation.op # "none"
    /\ ~(written.kind = "replace" /\ written.clause = "set" /\ written.columns # <<>>)
    /\ InList(toks, mutation.at)
    /\ \/ mutation.op = "delete" /\ Render(written)[mutation.at] = ","
       \/ /\ mutation.op = "replace"
          /\ toks[mutation.at - 1] \in { "(", "," }
          /\ reserved(Kw(mutation.tok)) /\ ~expr_ident(Kw(mutation.tok))
       \/ /\ mutation.op = "insert"
          /\ mutation.tok = "x"
          /\ toks[mutation.at - 1] \notin { "(", "," }
          /\ toks[mutation.at + 1] \in { ",", ")" }

\* C4: one syntax error inside a list construct of an otherwise valid
\* statement gives exactly one error issue whose span covers the offending
\* token and a returned node in which the clauses after the list are filled.
C4_RecoveryBounded ==
    (Done /\ OneErrorInList) =>
        /\ out.status = "ok"
        /\ Len(issues) = 1
        /\ issues[1].level = "error"
        /\ Inside(SpanAt(base, mutation.at), issues[1].span)
        /\ (written.kind = "table" => Len(out.node.options) = Len(written.opts))
        /\ (written.kind = "function" => out.node.return_type.type = "INT")
        /\ (written.kind = "replace" /\ written.clause = "values" =>
                /\ out.node.values # None
                /\ Len(out.node.values.rows) = Len(written.rows))

\* C5: the span of a node parsed from valid input runs from the start of the
\* first token the production consumed to the end of the last one.
C5_SpanCoverage ==
    (Returned /\ AsWritten /\ issues = <<>>) =>
        NodeSpan(out.node) = << SpanAt(base, 1)[1], SpanAt(base, pos - 1)[2] >>

\* The spans of the fields a node owns.
FieldSpans(n) ==
    LET of(items) == { items[i].span : i \in 1..Len(items) } IN
    IF n.kind = "CreateTable"
    THEN { n.create_span, n.table_span, n.identifier.span, n.if_not_exists }
         \cup of(n.create_options) \cup of(n.create_definitions) \cup of(n.options)
    ELSE IF n.kind = "CreateView"
    THEN { n.create_span, n.view_span, n.if_not_exists, n.name.span, n.as_span,
           n.select.span }
         \cup of(n.create_options)
    ELSE IF n.kind = "CreateFunction"
    THEN { n.create_span, n.function_span, n.if_not_exists, n.name.span,
           n.returns_span, n.return_type.span, n.return_span, n.return_.span }
         \cup of(n.create_options) \cup of(n.params) \cup of(n.characteristics)
    ELSE IF n.kind = "CreateTrigger"
    THEN { n.create_span, n.trigger_span, n.if_not_exists, n.name.span,
           n.trigger_time.span, n.trigger_event.span, n.on_span, n.table.span,
           n.for_each_row_span, n.statement.span }
         \cup of(n.create_options)
    ELSE { n.replace_span, n.into_span, opt_span(n.values), opt_span(n.select),
           opt_span(n.set) }
         \cup of(n.flags) \cup of(n.table) \cup of(n.columns)

\* C6: the span of every field a node owns lies inside the span of the node.
C6_FieldsInsideSpan ==
    (Returned /\ AsWritten) =>
        \A sp \in FieldSpans(out.node) : Inside(sp, NodeSpan(out.node))


\* The texts bound as identifiers in the modifiers ms.
DefinerNames(ms) ==
    UNION { { ms[i].user, ms[i].host } : i \in { j \in 1..Len(ms) : ms[j].type = "Definer" } }

\* The texts bound as identifiers in a node or in the locals of a production.
BoundNames(n) ==
    LET values(items) == { items[i].value : i \in 1..Len(items) } IN
    IF n.kind = "CreateTable"
    THEN { n.identifier.value } \cup DefinerNames(n.create_options)
         \cup { n.create_definitions[i].identifier : i \in 1..Len(n.create_definitions) }
         \cup { n.options[i].value :
                  i \in { j \in 1..Len(n.options) : n.options[j].type # "Comment" } }
    ELSE IF n.kind = "CreateView"
    THEN { n.name.value } \cup DefinerNames(n.create_options)
    ELSE IF n.kind = "CreateFunction"
    THEN { n.name.value } \cup DefinerNames(n.create_options)
         \cup { n.params[i].name : i \in 1..Len(n.params) }
    ELSE IF n.kind = "CreateTrigger"
    THEN { n.name.value, n.table.value } \cup DefinerNames(n.create_options)
    ELSE values(n.table) \cup values(n.columns)
         \cup (IF n.set = None THEN {}
               ELSE { n.set.pairs[i].col : i \in 1..Len(n.set.pairs) })

\* The texts bound as identifiers so far in the locals.
BoundLocals ==
    { loc.create_definitions[i].identifier : i \in 1..Len(loc.create_definitions) }
    \cup { loc.options[i].value :
             i \in { j \in 1..Len(loc.options) : loc.options[j].type # "Comment" } }
    \cup DefinerNames(loc.create_options)
    \cup { loc.params[i].name : i \in 1..Len(loc.params) }
    \cup { loc.table[i].value : i \in 1..Len(loc.table) }
    \cup { loc.columns[i].value : i \in 1..Len(loc.columns) }
    \cup (IF loc.identifier = None THEN {} ELSE { loc.identifier.value })
    \cup (IF loc.name = None THEN {} ELSE { loc.name.value })

\* An expected-identifier condition at token i: recovered into an issue, or
\* returned as the error of the production.
ExpectedIdentifierAt(i) ==
    \/ \E k \in 1..Len(issues) :
          issues[k].message = "identifier" /\ issues[k].span = SpanAt(base, i)
    \/ /\ out.status = "err"
       /\ out.error = [expected |-> "identifier", span |-> SpanAt(base, i)]

\* The edit puts tok where the statement as written has a plain name.
NameReplaced ==
    /\ mutation.op = "replace"
    /\ Kw(Render(written)[mutation.at]) = "NOT_A_KEYWORD"

\* IF right after the sub-kind keyword is taken by the IF NOT EXISTS probe
\* before the name is looked for.
TakenByProbe ==
    /\ mutation.tok = "IF"
    /\ toks[mutation.at - 1] \in { "TABLE", "VIEW", "FUNCTION", "TRIGGER" }

\* C7: no reserved word is ever bound as an identifier; a reserved word at an
\* identifier site (also REPLACE, IF, VALUES, which carry the expr-ident
\* facet) gives an expected-identifier condition, recovered or propagated;
\* an identifier-shaped token that is not reserved is bound with its text.
C7_ReservedNeverBound ==
    /\ \A text \in BoundLocals : ~reserved(Kw(text))
    /\ Returned => \A text \in BoundNames(out.node) : ~reserved(Kw(text))
    /\ (Done /\ NameReplaced /\ reserved(Kw(mutation.tok)) /\ ~TakenByProbe) =>
            ExpectedIdentifierAt(mutation.at)
    /\ (Done /\ NameReplaced /\ IsIdent(mutation.tok) /\ ~reserved(Kw(mutation.tok))) =>
            out.status = "ok" /\ mutation.tok \in BoundNames(out.node)
    /\ (Done /\ AsWritten /\ PlainName) =>
            /\ out.status = "ok"
            /\ written.kind # "replace" => written.name \in BoundNames(out.node)
            /\ written.kind \in { "table", "function" } =>
                  \A i \in 1..Len(written.cols) : written.cols[i][1] \in BoundNames(out.node)
            /\ written.kind = "replace" =>
                  /\ \A i \in 1..Len(written.table) : written.table[i] \in BoundNames(out.node)
                  /\ \A i \in 1..Len(written.columns) :
                        written.columns[i] \in BoundNames(out.node)

\* REPLACE, reserved but an expr-ident, was met where a name is required and
\* was refused there.
C7_Witness ==
    /\ Done
    /\ NameReplaced
    /\ mutation.tok = "REPLACE"
    /\ ExpectedIdentifierAt(mutation.at)
    /\ "REPLACE" \notin BoundLocals

\* ENGINE, a keyword that is not reserved, was bound as a name.
C7_WitnessAccepted ==
    /\ Returned
    /\ NameReplaced
    /\ mutation.tok = "ENGINE"
    /\ "ENGINE" \in BoundNames(out.node)


\* The orderings of n things.
Orderings(n) ==
    { f \in [1..n -> 1..n] : \A i, j \in 1..n : f[i] = f[j] => i = j }

Permuted(items, f) == [i \in 1..Len(items) |-> items[f[i]]]

\* A parsed modifier without its span.
Variant(o) ==
    IF o.type = "Algorithm" THEN <<o.type, o.algorithm>>
    ELSE IF o.type = "Definer" THEN <<o.type, o.user, o.host>>
    ELSE <<o.type>>

\* The variant a modifier is written as.
WrittenVariant(m) ==
    CASE m = "AlgorithmMerge" -> <<"Algorithm", "Merge">>
      [] m = "AlgorithmUndefined" -> <<"Algorithm", "Undefined">>
      [] m = "AlgorithmTempTable" -> <<"Algorithm", "TempTable">>
      [] m = "Definer" -> <<"Definer", "u", "h">>
      [] OTHER -> <<m>>

\* The parse of the written statement with its modifiers in the order f.
Reordered(f) ==
    Run(Start(Render([written EXCEPT !.mods = Permuted(@, f)]), base, "parse_create"))

\* C8: a CREATE with well-formed modifiers logs no issue and holds the written
\* variants in the written order; the same statement with the modifiers in
\* any other order logs no issue either, holds the same variants in that
\* order, and is equal in every other field.
C8_ModifierOrder ==
    (Done /\ AsWritten /\ PlainName /\ written.kind # "replace") =>
        /\ out.status = "ok"
        /\ issues = <<>>
        /\ Each(out.node.create_options, Variant) = Each(written.mods, WrittenVariant)
        /\ \A f \in Orderings(Len(written.mods)) :
              LET other == Reordered(f) IN
              /\ other.out.status = "ok"
              /\ other.issues = <<>>
              /\ Each(other.out.node.create_options, Variant)
                    = Permuted(Each(written.mods, WrittenVariant), f)
              /\ [other.out.node EXCEPT !.create_options = <<>>]
                    = [out.node EXCEPT !.create_options = <<>>]

\* CREATE DEFINER=u@h ALGORITHM=MERGE OR REPLACE VIEW v AS SELECT 1 has been
\* parsed, and so has its reordering that begins with OR REPLACE.
C8_Witness ==
    /\ Returned
    /\ written.kind = "view"
    /\ written.mods = <<"Definer", "AlgorithmMerge", "OrReplace">>
    /\ Len(out.node.create_options) = 3
    /\ \E f \in Orderings(3) :
          /\ Permuted(written.mods, f) = <<"OrReplace", "AlgorithmMerge", "Definer">>
          /\ Reordered(f).out.node.create_options[1].type = "OrReplace"


\* Going from token from one token at a time, the cursor stops at to: the
\* first sync token, or end-of-input.
StopsAtSync(from, to, sync) ==
    /\ from <= to
    /\ to = Len(toks) + 1 \/ toks[to] \in sync
    /\ \A q \in from..(to - 1) : toks[q] \notin sync

\* The step appends exactly one issue, at span sp.
OneIssueAppended(sp) ==
    /\ Len(issues') = Len(issues) + 1
    /\ SubSeq(issues', 1, Len(issues)) = issues
    /\ issues'[Len(issues')].span = sp

\* The modifier scope of parse_create.
ModifierScope ==
    pc = "create_options" =>
        LET body == create_option(Cur) IN
        IF body.ok
        THEN issues' = issues /\ pos' = body.s.pos
        ELSE /\ OneIssueAppended(body.v.span)
             /\ StopsAtSync(body.s.pos, pos', { "TABLE", "VIEW", "TRIGGER", "FUNCTION" })
             /\ out'.status = "running"
             /\ pc' = "create_dispatch"
             /\ loc'.create_options = loc.create_options

\* The name scope of parse_create_table, followed by the '(' of the caller.
NameScope ==
    pc = "create_table" =>
        LET t == consume_keyword(Cur, "TABLE")
            body == table_name(Assign(Assign(t.s, "identifier", Identifier("", <<0, 0>>)),
                                      "if_not_exists", None))
        IN
        IF body.ok
        THEN issues' = issues /\ pos' \in { body.s.pos, body.s.pos + 1 }
        ELSE /\ OneIssueAppended(body.v.span)
             /\ \E stop \in body.s.pos..(Len(toks) + 1) :
                   /\ StopsAtSync(body.s.pos, stop, { "(" })
                   /\ IF stop <= Len(toks)
                      THEN /\ pos' = stop + 1
                           /\ pc' = "create_definitions"
                           /\ loc'.if_not_exists = body.s.loc.if_not_exists
                           /\ loc'.identifier = body.s.loc.identifier
                      ELSE /\ pos' = stop
                           /\ out'.status = "err"
                           /\ out'.error.expected = "("

\* The rows of the VALUES clause after the step.
RowsAfter == IF pc' = "done" THEN out'.node.values.rows ELSE loc'.values_items

\* The scope of one VALUES row of parse_replace, followed by the ')' and the
\* ',' of the caller.
RowScope ==
    pc = "replace_values" =>
        LET lparen == consume_token(Assign(Cur, "vals", <<>>), "(") IN
        lparen.ok =>
            LET body == values_row(lparen.s) IN
            IF body.ok
            THEN /\ issues' = issues
                 /\ IF Token(body.s) = ")"
                    THEN pos' \in { body.s.pos + 1, body.s.pos + 2 }
                    ELSE pos' = body.s.pos /\ out'.status = "err"
            ELSE /\ OneIssueAppended(body.v.span)
                 /\ \E stop \in body.s.pos..(Len(toks) + 1) :
                       /\ StopsAtSync(body.s.pos, stop, { ")" })
                       /\ IF stop <= Len(toks)
                          THEN /\ pos' \in { stop + 1, stop + 2 }
                               /\ out'.status # "err"
                               /\ RowsAfter[Len(RowsAfter)] = body.s.loc.vals
                          ELSE /\ pos' = stop
                               /\ out'.status = "err"
                               /\ out'.error.expected = ")"

\* C9: when the body of a recovery scope fails, the failure is not handed
\* on, exactly one issue is appended, the cursor stops at the first sync
\* token at or after the failing token (or at end-of-input), the caller goes
\* on, and what the body stored before it failed is kept; when the body
\* succeeds, no issue is appended and the cursor stays where the body left it.
C9_RecoveredProtocol == [][ModifierScope /\ NameScope /\ RowScope]_vars

\* A modifier failed after another had been stored: one issue is logged, the
\* cursor has moved on from the failing token to TABLE, VIEW, TRIGGER or
\* FUNCTION, and the stored modifier is still there.
C9_Witness ==
    /\ pc = "create_dispatch"
    /\ Len(issues) = 1
    /\ issues[1].span[1] < span(Cur)[1]
    /\ IsCreatable(Token(Cur))
    /\ loc.create_options # <<>>

\* A VALUES row failed at its second expression and kept its first.
C9_WitnessRow ==
    /\ Returned
    /\ written.kind = "replace"
    /\ Len(issues) = 1
    /\ issues[1].message = "expression"
    /\ out.node.values # None
    /\ Len(out.node.values.rows[1]) = 1

\* C10: when the token after the name and the column list is none of SELECT,
\* VALUE, VALUES and SET, parse_replace appends the issue "Expected VALUE,
\* VALUES, SELECT or SET", consumes nothing and returns a Replace without
\* values, select and set.
C10_UnmatchedClause ==
    [][ (pc = "replace_dispatch"
         /\ Kw(Token(Cur)) \notin { "SELECT", "VALUE", "VALUES", "SET" }) =>
            /\ Len(issues') = Len(issues) + 1
            /\ SubSeq(issues', 1, Len(issues)) = issues
            /\ issues'[Len(issues')].message = "Expected VALUE, VALUES, SELECT or SET"
            /\ pos' = pos
            /\ out'.status = "ok"
            /\ out'.node.kind = "Replace"
            /\ out'.node.values = None
            /\ out'.node.select = None
            /\ out'.node.set = None ]_vars

\* REPLACE INTO t with nothing after the name has been parsed.
C10_Witness ==
    /\ Returned
    /\ toks = <<"REPLACE", "INTO", "t">>
    /\ Len(issues) = 1
    /\ issues[1].message = "Expected VALUE, VALUES, SELECT or SET"
    /\ pos = 4
    /\ out.node.values = None /\ out.node.select = None /\ out.node.set = None

\* C11: when the token at which the modifier scope ends (end-of-input
\* included) is none of TABLE, VIEW, FUNCTION and TRIGGER, parse_create
\* returns an error that names 'TABLE' | 'VIEW' | 'TRIGGER' | 'FUNCTION' at
\* that token, returns no node, consumes nothing and logs no issue for it.
C11_DispatchFailure ==
    [][ (pc = "create_dispatch" /\ ~IsCreatable(Token(Cur))) =>
            /\ pc' = "done"
            /\ out'.status = "err"
            /\ out'.node = None
            /\ out'.error.expected = CREATABLE
            /\ out'.error.span = span(Cur)
            /\ issues' = issues
            /\ pos' = pos ]_vars

\* A modifier failed, its recovery ran to end-of-input, and the dispatch
\* failed there: the one issue is that of the modifier.
C11_Witness ==
    /\ Failed
    /\ out.error.expected = CREATABLE
    /\ out.node = None
    /\ pos = Len(toks) + 1
    /\ Len(issues) = 1
    /\ issues[1].message # CREATABLE

\* The dispatch failed at a token that is no sub-kind keyword, with no
\* modifier failure before it.
C11_WitnessToken ==
    /\ Failed
    /\ out.error.expected = CREATABLE
    /\ pos <= Len(toks)
    /\ issues = <<>>

\* The messages of the issues that the productions push without a failure.
PushedDirectly ==
    { "Columns may not be used here", "Expected VALUE, VALUES, SELECT or SET" }

\* How many of the issues appended by the step stem from a recovery scope.
RecoveredInStep ==
    Cardinality({ i \in (Len(issues) + 1)..Len(issues') :
                    issues'[i].message \notin PushedDirectly })

\* C12: no failure is swallowed.  In every step of parse_create and
\* parse_replace each failure raised by a primitive is matched by one issue
\* appended by a recovery scope or by the production returning an error; so
\* a parse that returns a node and has logged no issue had no failure.
C12_NoSwallowedFailure ==
    [][ /\ failures' - failures =
              RecoveredInStep + (IF out'.status = "err" THEN 1 ELSE 0)
        /\ (pc' = "done" /\ out'.status = "ok" /\ issues' = <<>>) => failures' = 0
      ]_vars

\* A failure inside a recovery scope became an issue, and a later failure
\* outside every scope made the production return an error.
C12_Witness ==
    /\ Failed
    /\ failures = 2
    /\ Len(issues) = 1

\* A failure inside a recovery scope became an issue and the node was returned.
C12_WitnessReturned ==
    /\ Returned
    /\ failures = 1
    /\ Len(issues) = 1
    /\ issues[1].message \notin PushedDirectly

\* The SET arm with columns given: what the step does around the issue.
SetAfterColumns ==
    (pc = "replace_dispatch" /\ Kw(Token(Cur)) = "SET" /\ loc.columns # <<>>) =>
        LET set_span == consume_keyword(Cur, "SET")
            kvps == replace_set(set_span.s, <<>>)
        IN kvps.ok =>
            /\ issues'[Len(issues')].message = "Columns may not be used here"
            /\ Len(issues') = Len(issues) + 1
            /\ pos' = kvps.s.pos
            /\ pc' = "done"
            /\ out'.status = "ok"
            /\ out'.node.kind = "Replace"
            /\ out'.node.set = Set(set_span.v, kvps.v)

\* C13: the issue sink is append-only: every step of parse_create and
\* parse_replace leaves the earlier issues as a prefix of the issue list; and
\* pushing an issue neither moves the cursor nor ends the production: after
\* 'Columns may not be used here' is pushed, the cursor is where the SET
\* clause ended, set is stored and the Replace is returned.
C13_IssuesAppendOnly ==
    [][ /\ Len(issues) <= Len(issues')
        /\ SubSeq(issues', 1, Len(issues)) = issues
        /\ SetAfterColumns ]_vars

\* A column failed and was recovered, then the SET clause was parsed: the
\* issue of the SET clause follows that of the column, and set is stored.
C13_Witness ==
    /\ Returned
    /\ Len(issues) = 2
    /\ issues[1].message = "identifier"
    /\ issues[2].message = "Columns may not be used here"
    /\ out.node.set # None
    /\ pos = Len(toks) + 1

\* The reserved words that the claim names as expression identifiers.
ReservedExprIdents ==
    { "VALUES", "RIGHT", "IF", "REPLACE", "CURRENT_DATE", "CURRENT_TIME",
      "CURRENT_TIMESTAMP", "UTC_DATE", "UTC_TIME", "UTC_TIMESTAMP" }

\* C14: for every value k of the Keyword enumeration, NOT_A_KEYWORD and
\* QUOTED_IDENTIFIER included, expr_ident(k) is true exactly when k is in the
\* expr-ident list or reserved(k) is false; so every non-reserved keyword is
\* an expression identifier, a reserved one is an expression identifier
\* exactly when it is one of the ten listed words, and ENGINE and FORMAT are
\* not reserved.
C14_KeywordFacets ==
    (pc = "done" /\ out.status = "facets") =>
        /\ out.expr_ident <=> (out.keyword \in ExprIdentList \/ ~out.reserved)
        /\ ~out.reserved => out.expr_ident
        /\ (out.reserved /\ out.expr_ident) <=> out.keyword \in ReservedExprIdents
        /\ out.keyword \in { "ENGINE", "FORMAT" } => ~out.reserved
        /\ out.keyword \in { "NOT_A_KEYWORD", "QUOTED_IDENTIFIER" } =>
               (~out.reserved /\ out.expr_ident)

\* VALUES has been classified: reserved, and an expression identifier.
C14_Witness ==
    /\ pc = "done"
    /\ out.status = "facets"
    /\ out.keyword = "VALUES"
    /\ out.reserved
    /\ out.expr_ident

\* ENGINE has been classified: not reserved, and an expression identifier.
C14_WitnessEngine ==
    /\ pc = "done"
    /\ out.status = "facets"
    /\ out.keyword = "ENGINE"
    /\ ~out.reserved
    /\ out.expr_ident

\* The identifiers a CREATE node holds for the name of what it creates.
NameParts(n) ==
    IF n.kind = "CreateTable" THEN { n.identifier.value } ELSE { n.name.value }

\* C15: a CREATE TABLE, VIEW, FUNCTION or TRIGGER whose name is written as
\* two or more non-reserved identifiers joined by periods is accepted: the
\* node is returned, it holds every part of the name, and no issue is logged.
C15_DotJoinedName ==
    (Done /\ AsWritten /\ written.kind # "replace" /\ ~PlainName) =>
        /\ out.status = "ok"
        /\ issues = <<>>
        /\ written.name \in NameParts(out.node)
        /\ \A i \in 1..Len(written.qualifier) :
              written.qualifier[i] \in NameParts(out.node)

\* The tokens of the source text that span sp covers.
Covered(sp) ==
    LET inside == { i \in 1..Len(toks) : Inside(SpanAt(base, i), sp) }
        first == CHOOSE i \in inside : \A j \in inside : i <= j
    IN [k \in 1..Cardinality(inside) |-> toks[first + k - 1]]

\* The parse of the text that the span of the returned node covers, the text
\* staying at its offset in the source.
Reparsed ==
    LET sp == NodeSpan(out.node) IN
    Run(Start(Covered(sp), sp[1], Entry(written)))

\* C16: when a statement is parsed without issues, parsing the text covered
\* by the span of the returned node again logs no issue and returns the same
\* node: same variant, modifiers, name, clauses and values.
C16_ReparseIdempotent ==
    (Returned /\ issues = <<>>) =>
        /\ Reparsed.out.status = "ok"
        /\ Reparsed.issues = <<>>
        /\ Reparsed.out.node = out.node

\* A pass of a loop that goes round again consumes a token; at end-of-input
\* no loop goes round again.
LoopsAdvance ==
    (pc # "done" /\ pc' = pc) => (pos' > pos /\ pos <= Len(toks))

\* The loops that run inside one step (function parameters, table parts,
\* columns, the expressions of a VALUES row, SET pairs) store at most one
\* element per token consumed.
InnerLoopsAdvance ==
    /\ pc = "create_function" => Len(loc'.params) <= pos' - pos
    /\ pc = "replace_table" => Len(loc'.table) + Len(loc'.columns) <= pos' - pos
    /\ pc = "replace_values" => Len(loc'.vals) <= pos' - pos
    /\ (pc = "replace_dispatch" /\ out'.status = "ok" /\ out'.node.set # None) =>
           Len(out'.node.set.pairs) <= pos' - pos

\* How far along its production a step is: every step that consumes nothing
\* hands over to a later stage.
Stage(p) ==
    CASE p \in { "parse_create", "parse_replace" } -> 0
      [] p \in { "create_options", "replace_flags" } -> 1
      [] p \in { "create_dispatch", "replace_table" } -> 2
      [] p \in { "create_table", "create_view", "create_function",
                 "create_trigger", "replace_dispatch" } -> 3
      [] p \in { "create_definitions", "function_characteristics",
                 "replace_values" } -> 4
      [] p = "table_options" -> 5
      [] p = "done" -> 6

\* Every step consumes a token or moves on to a later stage, so a parse of n
\* tokens takes at most 7 * (n + 1) steps.
Progress == pos' > pos \/ (pos' = pos /\ Stage(pc') > Stage(pc))

\* C17: parse_create and parse_replace terminate on every token sequence,
\* returning a node or an error: a call that has not returned has a next step
\* that changes its state, and every step brings the return nearer; every pass
\* of a loop that does not leave the loop consumes at least one token, and no
\* loop goes on at end-of-input.
C17_Termination ==
    /\ [](Done \/ Step(Cur) # Cur)
    /\ [](Done => out.status \in { "ok", "err" })
    /\ [][ /\ Progress
           /\ pos' <= Len(toks) + 1
           /\ LoopsAdvance
           /\ InnerLoopsAdvance ]_vars

\* A production has returned after going round a loop with a failing pass.
C17_Witness ==
    /\ Done
    /\ out.status = "ok"
    /\ Len(issues) = 1
    /\ pos = Len(toks) + 1
    /\ written.kind = "table"
    /\ Len(out.node.create_definitions) >= 1
    /\ Len(out.node.options) >= 1

\* The token stream without its i-th token.
Without(i) == Edit(toks, [op |-> "delete", at |-> i, tok |-> ""])

\* Where span sp lies once the token that started at offset at is taken out
\* of the text together with the gap after it.
Closed(sp, at) ==
    IF sp = None THEN None
    ELSE << IF sp[1] > at THEN sp[1] - (TokenWidth + TokenGap) ELSE sp[1],
            IF sp[2] > at THEN sp[2] - (TokenWidth + TokenGap) ELSE sp[2] >>

ClosedItem(x, at) == [x EXCEPT !.span = Closed(@, at)]
ClosedItems(xs, at) == [i \in 1..Len(xs) |-> ClosedItem(xs[i], at)]

\* Replace n as it reads in the text without the token at offset at.
ClosedReplace(n, at) ==
    [ kind |-> "Replace",
      flags |-> ClosedItems(n.flags, at),
      replace_span |-> Closed(n.replace_span, at),
      table |-> ClosedItems(n.table, at),
      into_span |-> Closed(n.into_span, at),
      values |-> IF n.values = None THEN None
                 ELSE [ values_span |-> Closed(n.values.values_span, at),
                        rows |-> [i \in 1..Len(n.values.rows) |->
                                     ClosedItems(n.values.rows[i], at)],
                        span |-> Closed(n.values.span, at) ],
      select |-> IF n.select = None THEN None
                 ELSE [ select_span |-> Closed(n.select.select_span, at),
                        expr |-> ClosedItem(n.select.expr, at),
                        span |-> Closed(n.select.span, at) ],
      columns |-> ClosedItems(n.columns, at),
      set |-> IF n.set = None THEN None
              ELSE [ set_span |-> Closed(n.set.set_span, at),
                     pairs |-> ClosedItems(n.set.pairs, at),
                     span |-> Closed(n.set.span, at) ] ]

\* The table option o as it reads in the text without the token at offset at.
ClosedOption(o, at) ==
    [o EXCEPT !.identifier = Closed(@, at), !.span = Closed(@, at)]

\* A probe at the current position: absent with the state as it was, or the
\* span of the one token it consumed.
IsProbe(r) ==
    /\ r.ok
    /\ r.v = None => r.s = Cur
    /\ r.v # None => /\ r.v = span(Cur)
                     /\ r.s = [Cur EXCEPT !.pos = pos + 1]

\* The index of the INTO the probe of parse_replace meets, 0 when it meets
\* none: INTO after REPLACE and its flags, before a token other than INTO.
IntoAt ==
    IF \E i \in 2..Len(toks) :
          /\ toks[1] = "REPLACE"
          /\ \A j \in 2..(i - 1) : toks[j] \in { "LOW_PRIORITY", "DELAYED" }
          /\ toks[i] = "INTO"
          /\ (i = Len(toks) \/ toks[i + 1] # "INTO")
    THEN CHOOSE i \in 2..Len(toks) :
             (\A j \in 2..(i - 1) : toks[j] # "INTO") /\ toks[i] = "INTO"
    ELSE 0

\* REPLACE INTO t ... and REPLACE t ... end alike, and when they return nodes
\* the nodes differ in into_span only.
SameButInto ==
    (pc = "parse_replace" /\ IntoAt # 0) =>
        LET with == Run(Cur)
            without == Run(Start(Without(IntoAt), base, "parse_replace"))
            at == SpanAt(base, IntoAt)[1]
        IN /\ with.out.status = without.out.status
           /\ Len(with.issues) = Len(without.issues)
           /\ with.out.status = "ok" =>
                 /\ with.out.node.into_span = SpanAt(base, IntoAt)
                 /\ without.out.node.into_span = None
                 /\ without.out.node =
                        [ClosedReplace(with.out.node, at) EXCEPT !.into_span = None]

\* A table option written with '=' and the same option written without it
\* have the same variant and value.
SameWithoutEq ==
    pc = "parse_create" =>
        LET with == Run(Cur) IN
        \A i \in 1..Len(toks) :
            ( /\ toks[i] = "="
              /\ with.out.status = "ok"
              /\ with.out.node.kind = "CreateTable"
              /\ \E k \in 1..Len(with.out.node.options) :
                     Inside(SpanAt(base, i), with.out.node.options[k].span) ) =>
            LET without == Run(Start(Without(i), base, "parse_create")) IN
            /\ without.out.status = "ok"
            /\ Len(without.issues) = Len(with.issues)
            /\ without.out.node.options =
                   [k \in 1..Len(with.out.node.options) |->
                       ClosedOption(with.out.node.options[k], SpanAt(base, i)[1])]

\* The index of the token that ends at offset e.
EndsAt(e) == CHOOSE j \in 1..Len(toks) : SpanAt(base, j)[2] = e

\* A table option written without '=' has the same variant and value when it
\* is written with '=' before its value.
SameWithEq ==
    pc = "parse_create" =>
        LET without == Run(Cur) IN
        (without.out.status = "ok" /\ without.out.node.kind = "CreateTable") =>
            \A k \in 1..Len(without.out.node.options) :
                LET j == EndsAt(without.out.node.options[k].span[2])
                    with == Run(Start(Edit(toks, [op |-> "insert", at |-> j, tok |-> "="]),
                                      base, "parse_create"))
                IN toks[j - 1] # "=" =>
                      /\ with.out.status = "ok"
                      /\ Len(with.issues) = Len(without.issues)
                      /\ without.out.node.options =
                             [m \in 1..Len(with.out.node.options) |->
                                 ClosedOption(with.out.node.options[m],
                                              SpanAt(base, j)[1])]

\* C18: skip_keyword and skip_token never fail: on a token that does not match
\* they return absent and leave the cursor and the issues as they were, on a
\* match they consume that one token and return its span. So REPLACE INTO t ...
\* and REPLACE t ... give Replace nodes that differ only in into_span, and a
\* table option gives the same value with and without '='.
C18_SkipProbes ==
    /\ \A k \in { "INTO", "ENGINE" } : IsProbe(skip_keyword(Cur, k))
    /\ \A t \in { "=", ",", ".", "(" } : IsProbe(skip_token(Cur, t))
    /\ SameButInto
    /\ SameWithoutEq
    /\ SameWithEq

\* REPLACE INTO has returned a node with columns and rows, and the same text
\* without INTO returns one.
C18_Witness ==
    /\ Returned
    /\ IntoAt # 0
    /\ out.node.kind = "Replace"
    /\ out.node.into_span = SpanAt(base, IntoAt)
    /\ base = 4
    /\ out.node.columns # <<>>
    /\ out.node.values # None
    /\ Run(Start(Without(IntoAt), base, "parse_replace")).out.node.into_span = None

\* CREATE TABLE has returned an option written with '='.
C18_WitnessOption ==
    /\ Returned
    /\ out.node.kind = "CreateTable"
    /\ \E i \in 1..Len(toks) : \E k \in 1..Len(out.node.options) :
           /\ toks[i] = "="
           /\ Inside(SpanAt(base, i), out.node.options[k].span)
           /\ Run(Start(Without(i), base, "parse_create")).out.node.options[k].value
                  = out.node.options[k].value

\* The i-th token of the input is the keyword k.
KeywordAt(i, k) == i <= Len(toks) /\ IsIdent(toks[i]) /\ Kw(toks[i]) = k

\* The production at the cursor has its keyword and an IF after it.
AfterIf ==
    /\ \/ pc = "create_table" /\ KeywordAt(pos, "TABLE")
       \/ pc = "create_view" /\ KeywordAt(pos, "VIEW")
       \/ pc = "create_function" /\ KeywordAt(pos, "FUNCTION")
       \/ pc = "create_trigger" /\ KeywordAt(pos, "TRIGGER")
    /\ KeywordAt(pos + 1, "IF")

\* NOT and EXISTS follow that IF.
ExactlyNotExists == KeywordAt(pos + 2, "NOT") /\ KeywordAt(pos + 3, "EXISTS")

\* From the start of that IF to the end of EXISTS.
IfToExists == << SpanAt(base, pos + 1)[1], SpanAt(base, pos + 3)[2] >>

\* The token of IF NOT EXISTS that is not the expected one.
Mismatch == IF KeywordAt(pos + 2, "NOT") THEN pos + 3 ELSE pos + 2

\* The first '(' at or after index i, 0 when there is none.
NextLParen(i) ==
    IF \E j \in i..Len(toks) : toks[j] = "("
    THEN CHOOSE j \in i..Len(toks) :
             toks[j] = "(" /\ \A m \in i..(j - 1) : toks[m] # "("
    ELSE 0

\* if_not_exists as the step of the production leaves it: in the node it
\* returns, or in the locals it goes on with.
IfNotExistsAfter ==
    IF pc' = "done" THEN out'.node.if_not_exists ELSE loc'.if_not_exists

\* C19: once IF has been consumed in a CREATE production, if_not_exists is set
\* only when the next two tokens are NOT then EXISTS, and then it runs from the
\* start of IF to the end of EXISTS; otherwise CREATE VIEW, CREATE FUNCTION and
\* CREATE TRIGGER return an error and no node, and CREATE TABLE logs one
\* issue, leaves if_not_exists absent and goes on at the next '('.
C19_IfNotExists ==
    [][ AfterIf =>
          /\ (ExactlyNotExists /\ ~(pc' = "done" /\ out'.status = "err")) =>
                 IfNotExistsAfter = IfToExists
          /\ (~ExactlyNotExists /\ pc # "create_table") =>
                 /\ pc' = "done"
                 /\ out'.status = "err"
                 /\ out'.node = None
                 /\ out'.error.span = SpanAt(base, Mismatch)
                       \/ (Mismatch > Len(toks) /\ out'.error.span = span([Cur EXCEPT !.pos = Mismatch]))
                 /\ issues' = issues
          /\ (~ExactlyNotExists /\ pc = "create_table") =>
                 /\ loc'.if_not_exists = None
                 /\ Len(issues') = Len(issues) + 1
                 /\ issues'[Len(issues')].span = span([Cur EXCEPT !.pos = Mismatch])
                 /\ NextLParen(Mismatch) # 0 =>
                        /\ pc' = "create_definitions"
                        /\ pos' = NextLParen(Mismatch) + 1 ]_vars

\* CREATE TABLE IF followed by something else than NOT EXISTS has returned a
\* node without if_not_exists, with the one issue of the mismatch.
C19_Witness ==
    /\ Returned
    /\ out.node.kind = "CreateTable"
    /\ KeywordAt(3, "IF")
    /\ KeywordAt(4, "NOT")
    /\ ~KeywordAt(5, "EXISTS")
    /\ out.node.if_not_exists = None
    /\ Len(issues) = 1
    /\ Len(out.node.create_definitions) = 2

\* CREATE VIEW IF NOT without EXISTS has failed.
C19_WitnessView ==
    /\ Failed
    /\ \E i \in 1..Len(toks) :
           /\ KeywordAt(i, "VIEW")
           /\ KeywordAt(i + 1, "IF")
           /\ KeywordAt(i + 2, "NOT")
           /\ ~KeywordAt(i + 3, "EXISTS")
           /\ out.error.span = SpanAt(base, i + 3)
    /\ issues = <<>>

\* CREATE FUNCTION IF or CREATE TRIGGER IF without NOT has failed.
C19_WitnessOther ==
    /\ Failed
    /\ \E i \in 1..Len(toks) :
           /\ KeywordAt(i, IF written.kind = "function" THEN "FUNCTION" ELSE "TRIGGER")
           /\ KeywordAt(i + 1, "IF")
           /\ ~KeywordAt(i + 2, "NOT")
           /\ out.error.span = SpanAt(base, i + 2)
    /\ issues = <<>>

\* CREATE FUNCTION IF NOT EXISTS has returned a node with if_not_exists.
C19_WitnessFunction ==
    /\ Returned
    /\ out.node.kind = "CreateFunction"
    /\ out.node.if_not_exists = << SpanAt(base, 3)[1], SpanAt(base, 5)[2] >>

\* The keywords a table option starts with.
OptionKeywords == { "ENGINE", "DEFAULT", "CHARSET", "COLLATE", "ROW_FORMAT", "COMMENT" }

\* The i-th token of the input, end-of-input after the last.
TokenAt(i) == IF i <= Len(toks) THEN toks[i] ELSE Eof

\* The option loop is at a token that starts no option and ends no statement.
UnsupportedOption ==
    /\ pc = "table_options"
    /\ pos <= Len(toks)
    /\ toks[pos] # Delimiter
    /\ ~(IsIdent(toks[pos]) /\ Kw(toks[pos]) \in OptionKeywords)

\* The index of the value of the option at the cursor: after the keyword(s)
\* and the '=' when there is one.
ValueAt ==
    LET after == IF KeywordAt(pos, "DEFAULT") THEN pos + 2 ELSE pos + 1
    IN IF TokenAt(after) = "=" THEN after + 1 ELSE after

\* The option loop is at an option whose value does not parse.
OptionValueFails ==
    /\ pc = "table_options"
    /\ pos <= Len(toks)
    /\ IsIdent(toks[pos])
    /\ Kw(toks[pos]) \in OptionKeywords
    /\ KeywordAt(pos, "DEFAULT") =>
           KeywordAt(pos + 1, "CHARSET") \/ KeywordAt(pos + 1, "COLLATE")
    /\ IF KeywordAt(pos, "COMMENT")
       THEN TokenAt(ValueAt) \notin Strings_
       ELSE ~(IsIdent(TokenAt(ValueAt)) /\ ~reserved(Kw(TokenAt(ValueAt))))

\* The first delimiter at or after index i, end-of-input when there is none.
NextDelimiter(i) ==
    IF \E j \in i..Len(toks) : toks[j] = Delimiter
    THEN CHOOSE j \in i..Len(toks) :
             toks[j] = Delimiter /\ \A m \in i..(j - 1) : toks[m] # Delimiter
    ELSE Len(toks) + 1

\* The step logs one issue, stops at the first delimiter from token i on or at
\* end-of-input, and returns the CreateTable with the options parsed so far.
RecoversFrom(i) ==
    /\ Len(issues') = Len(issues) + 1
    /\ SubSeq(issues', 1, Len(issues)) = issues
    /\ issues'[Len(issues')].span = span([Cur EXCEPT !.pos = i])
    /\ pos' = NextDelimiter(i)
    /\ pc' = "done"
    /\ out'.status = "ok"
    /\ out'.node.kind = "CreateTable"
    /\ out'.node.options = loc.options
    /\ out'.node.create_definitions = loc.create_definitions

\* A pass that goes round again has stored its one option after the others.
StoresOption ==
    (pc = "table_options" /\ pc' = "table_options") =>
        /\ Len(loc'.options) = Len(loc.options) + 1
        /\ SubSeq(loc'.options, 1, Len(loc.options)) = loc.options
        /\ loc'.options[Len(loc'.options)].identifier = span(Cur)
        /\ loc'.options[Len(loc'.options)].span[2] = SpanAt(base, pos' - 1)[2]
        /\ issues' = issues

\* C20: in the option tail of CREATE TABLE, a token that is no option keyword,
\* no delimiter and not end-of-input, or an option value that does not parse,
\* logs exactly one issue; the cursor stops at the delimiter or end-of-input,
\* the options parsed before are kept in source order, none is recorded for
\* the failing clause, and the CreateTable is returned.
C20_OptionTailRecovery ==
    [][ /\ UnsupportedOption => RecoversFrom(pos)
        /\ OptionValueFails => RecoversFrom(ValueAt)
        /\ StoresOption ]_vars

\* An option was parsed, the value of the next one was not, and the
\* CreateTable was returned with the first option, at the delimiter.
C20_Witness ==
    /\ Returned
    /\ out.node.kind = "CreateTable"
    /\ Len(out.node.options) = 1
    /\ Len(issues) = 1
    /\ issues[1].span[1] > out.node.options[1].span[2]
    /\ pos = Len(toks)
    /\ toks[pos] = Delimiter
    /\ toks[pos - 2] = "COMMENT"

\* A token that starts no option was met after the closing parenthesis, and
\* the CreateTable was returned at end-of-input.
C20_WitnessUnsupported ==
    /\ Returned
    /\ out.node.kind = "CreateTable"
    /\ Len(issues) = 1
    /\ pos = Len(toks) + 1
    /\ \E i \in 1..Len(toks) :
           /\ toks[i] = ")"
           /\ issues[1].span = SpanAt(base, i + 1)
           /\ toks[i + 1] \notin OptionKeywords

\* The kind of a written modifier: its CreateOption variant.
ModifierKind(m) == WrittenVariant(m)[1]

\* A modifier kind is written more than once, or SQL SECURITY DEFINER and
\* SQL SECURITY USER are both written.
Repeats ==
    \/ \E i, j \in 1..Len(written.mods) :
           i < j /\ ModifierKind(written.mods[i]) = ModifierKind(written.mods[j])
    \/ \E i, j \in 1..Len(written.mods) :
           written.mods[i] = "SqlSecurityDefiner" /\ written.mods[j] = "SqlSecurityUser"

\* The index of the first token of the i-th written modifier.
RECURSIVE ClauseStart(_)
ClauseStart(i) ==
    IF i = 1 THEN 2 ELSE ClauseStart(i - 1) + Len(ModifierTokens(written.mods[i - 1]))

\* C21: repeated and mutually exclusive CREATE modifiers are not rejected: the
\* parse logs no issue, and create_options holds one entry per written
\* modifier, in source order.
C21_RepeatedModifiers ==
    (Done /\ AsWritten /\ PlainName /\ written.kind # "replace" /\ Repeats) =>
        /\ out.status = "ok"
        /\ issues = <<>>
        /\ Len(out.node.create_options) = Len(written.mods)
        /\ \A i \in 1..Len(written.mods) :
              /\ Variant(out.node.create_options[i]) = WrittenVariant(written.mods[i])
              /\ out.node.create_options[i].span[1] = SpanAt(base, ClauseStart(i))[1]
              /\ out.node.create_options[i].span[2] =
                     SpanAt(base, ClauseStart(i) + Len(ModifierTokens(written.mods[i])) - 1)[2]

\* CREATE SQL SECURITY DEFINER SQL SECURITY USER SQL SECURITY DEFINER VIEW ..
\* has returned its node with the three modifiers.
C21_Witness ==
    /\ Returned
    /\ AsWritten
    /\ written.mods = <<"SqlSecurityDefiner", "SqlSecurityUser", "SqlSecurityDefiner">>
    /\ Len(out.node.create_options) = 3
    /\ issues = <<>>

\* CREATE OR REPLACE OR REPLACE VIEW .. has returned its node.
C21_WitnessSame ==
    /\ Returned
    /\ AsWritten
    /\ written.mods = <<"OrReplace", "OrReplace">>
    /\ Len(out.node.create_options) = 2

\* The keyword an option of the given variant starts with.
OptionStart(type) ==
    CASE type = "Engine" -> "ENGINE"
      [] type \in { "DefaultCharSet", "DefaultCollate" } -> "DEFAULT"
      [] type = "CharSet" -> "CHARSET"
      [] type = "Collate" -> "COLLATE"
      [] type = "RowFormat" -> "ROW_FORMAT"
      [] type = "Comment" -> "COMMENT"

\* Option o starts at the token with index i and its value is the token with
\* index j: the identifier span is that of token i, and the span of the option
\* runs from the start of token i to the end of token j.
OptionFromTo(o, i, j) ==
    /\ KeywordAt(i, OptionStart(o.type))
    /\ o.identifier = SpanAt(base, i)
    /\ o.value = toks[j]
    /\ o.span = << SpanAt(base, i)[1], SpanAt(base, j)[2] >>

\* C22: the identifier span of every recorded table option is the span of the
\* token the option starts at, taken before the keyword is consumed (DEFAULT
\* for DEFAULT CHARSET and DEFAULT COLLATE), and the span of the option runs
\* from there to the end of its value.
C22_OptionIdentifier ==
    /\ []( (Returned /\ out.node.kind = "CreateTable") =>
              \A k \in 1..Len(out.node.options) :
                  \E i, j \in 1..Len(toks) :
                      i < j /\ OptionFromTo(out.node.options[k], i, j) )
    /\ [][ (pc = "table_options" /\ Len(loc'.options) > Len(loc.options)) =>
              /\ Len(loc'.options) = Len(loc.options) + 1
              /\ OptionFromTo(loc'.options[Len(loc'.options)], pos, pos' - 1) ]_vars

\* A CreateTable with DEFAULT COLLATE = utf8 was returned for a statement that
\* starts at offset 4: the identifier span of the option is that of DEFAULT.
C22_Witness ==
    /\ Returned
    /\ base = 4
    /\ out.node.kind = "CreateTable"
    /\ \E k \in 1..Len(out.node.options) : \E i \in 1..Len(toks) :
           /\ out.node.options[k].type = "DefaultCollate"
           /\ toks[i] = "DEFAULT"
           /\ toks[i + 2] = "="
           /\ OptionFromTo(out.node.options[k], i, i + 3)

\* The clauses of Replace n that are present.
Clauses(n) ==
    { c \in { "values", "select", "set" } :
        \/ c = "values" /\ n.values # None
        \/ c = "select" /\ n.select # None
        \/ c = "set" /\ n.set # None }

\* The run has logged that no clause was found.
LoggedUnmatched ==
    \E i \in 1..Len(issues) :
        issues[i].message = "Expected VALUE, VALUES, SELECT or SET"

\* The keyword of the token at the cursor.
DispatchOn == Kw(Token(Cur))

\* C23: a Replace returned by parse_replace holds at most one of values,
\* select and set; it holds exactly the one of the keyword found after the
\* name and the column list when that clause parses, and none only in the run
\* that logged "Expected VALUE, VALUES, SELECT or SET".
C23_OneClause ==
    /\ []( (Returned /\ out.node.kind = "Replace") =>
              /\ Cardinality(Clauses(out.node)) <= 1
              /\ Clauses(out.node) = {} <=> LoggedUnmatched )
    /\ [][ /\ (pc = "replace_dispatch" /\ DispatchOn = "SELECT" /\ out'.status = "ok") =>
                  Clauses(out'.node) = { "select" }
           /\ (pc = "replace_dispatch" /\ DispatchOn = "SET" /\ out'.status = "ok") =>
                  Clauses(out'.node) = { "set" }
           /\ (pc = "replace_dispatch" /\ DispatchOn \in { "VALUE", "VALUES" }) =>
                  /\ pc' = "replace_values"
                  /\ loc'.values_span = span(Cur)
                  /\ issues' = issues
           /\ (pc = "replace_values" /\ out'.status = "ok") =>
                  Clauses(out'.node) = { "values" }
           /\ (pc = "replace_dispatch"
                 /\ DispatchOn \notin { "SELECT", "SET", "VALUE", "VALUES" }) =>
                  /\ out'.status = "ok"
                  /\ Clauses(out'.node) = {}
                  /\ issues' = Append(issues,
                         IssueErr("Expected VALUE, VALUES, SELECT or SET", span(Cur))) ]_vars

\* A Replace with SET alone was returned although an issue was logged.
C23_Witness ==
    /\ Returned
    /\ out.node.kind = "Replace"
    /\ Clauses(out.node) = { "set" }
    /\ Len(issues) = 1
    /\ ~LoggedUnmatched

\* A Replace without a clause was returned.
C23_WitnessNone ==
    /\ Returned
    /\ out.node.kind = "Replace"
    /\ Clauses(out.node) = {}
    /\ LoggedUnmatched

\* A Replace with a row that was recovered was returned with values alone.
C23_WitnessValues ==
    /\ Returned
    /\ out.node.kind = "Replace"
    /\ Clauses(out.node) = { "values" }
    /\ Len(issues) = 1
    /\ \E i \in 1..Len(toks) : toks[i] = "VALUES" /\ out.node.values.values_span = SpanAt(base, i)

\* The end of the last token consumed so far.
ConsumedEnd == IF pos = 1 THEN base ELSE SpanAt(base, pos - 1)[2]

\* The table name of CreateTable n was left as it is before the name scope.
DefaultName(n) == n.identifier = Identifier("", <<0, 0>>)

\* C24: the span of every returned CreateTable, also of one built after a
\* recovery, starts at the start of its CREATE keyword and ends no later than
\* the end of the last token consumed; a table name left at its default does
\* not move the start before CREATE.
C24_TableSpanBounds ==
    (Returned /\ out.node.kind = "CreateTable") =>
        /\ CreateTable_span(out.node)[1] = SpanAt(base, 1)[1]
        /\ CreateTable_span(out.node)[1] = out.node.create_span[1]
        /\ CreateTable_span(out.node)[2] <= ConsumedEnd

\* The same without the start when the name was left at its default.
C24_ExceptDefaultName ==
    (Returned /\ out.node.kind = "CreateTable") =>
        /\ ~DefaultName(out.node) => CreateTable_span(out.node)[1] = SpanAt(base, 1)[1]
        /\ (DefaultName(out.node) /\ base = 0) => CreateTable_span(out.node)[1] = 0
        /\ CreateTable_span(out.node)[2] <= ConsumedEnd

\* The i-th token of the input can be a plain identifier.
PlainAt(i) == IsIdent(TokenAt(i)) /\ ~reserved(Kw(TokenAt(i)))

\* The index of the token at which the modifier clause at the cursor fails,
\* 0 when the cursor is at no modifier or the clause is complete.
FailsAt ==
    CASE KeywordAt(pos, "OR") ->
            IF ~KeywordAt(pos + 1, "REPLACE") THEN pos + 1 ELSE 0
      [] KeywordAt(pos, "ALGORITHM") ->
            IF TokenAt(pos + 1) # "=" THEN pos + 1
            ELSE IF \A a \in { "UNDEFINED", "MERGE", "TEMPTABLE" } : ~KeywordAt(pos + 2, a)
                 THEN pos + 2 ELSE 0
      [] KeywordAt(pos, "DEFINER") ->
            IF TokenAt(pos + 1) # "=" THEN pos + 1
            ELSE IF ~PlainAt(pos + 2) THEN pos + 2
            ELSE IF TokenAt(pos + 3) # "@" THEN pos + 3
            ELSE IF ~PlainAt(pos + 4) THEN pos + 4 ELSE 0
      [] KeywordAt(pos, "SQL") ->
            IF ~KeywordAt(pos + 1, "SECURITY") THEN pos + 1
            ELSE IF ~KeywordAt(pos + 2, "DEFINER") /\ ~KeywordAt(pos + 2, "USER")
                 THEN pos + 2 ELSE 0
      [] OTHER -> 0

\* The step of the production a sub-kind keyword is parsed by.
SubKind(k) ==
    CASE k = "TABLE" -> "create_table"
      [] k = "VIEW" -> "create_view"
      [] k = "FUNCTION" -> "create_function"
      [] k = "TRIGGER" -> "create_trigger"

\* C25: a CREATE modifier that fails part-way logs exactly one issue;
\* create_options keeps the modifiers parsed before it, in source order, and
\* gets nothing for the failing modifier nor for a later one; the cursor goes
\* to the first TABLE, VIEW, TRIGGER or FUNCTION from the failing token on,
\* and that sub-kind is parsed next.
C25_ModifierFailure ==
    /\ [][ /\ (pc = "create_options" /\ FailsAt # 0) =>
                  /\ OneIssueAppended(span([Cur EXCEPT !.pos = FailsAt]))
                  /\ loc'.create_options = loc.create_options
                  /\ pc' = "create_dispatch"
                  /\ out'.status = "running"
                  /\ StopsAtSync(FailsAt, pos', Creatable)
           /\ (pc = "create_dispatch" /\ IsCreatable(Token(Cur))) =>
                  /\ pc' = SubKind(Kw(Token(Cur)))
                  /\ pos' = pos
                  /\ issues' = issues
           /\ pc \in { "create_dispatch", "create_table", "create_view",
                       "create_function", "create_trigger" } =>
                  loc'.create_options = loc.create_options
           /\ (pc \in { "create_view", "create_trigger" } /\ out'.status = "ok") =>
                  out'.node.create_options = loc.create_options ]_vars
    /\ []( (Returned /\ out.node.kind \in { "CreateTable", "CreateFunction" }) =>
              out.node.create_options = loc.create_options )

\* CREATE OR REPLACE SQL SECURITY <other> VIEW v .. has returned a CreateView
\* with OR REPLACE alone and one issue.
C25_Witness ==
    /\ Returned
    /\ out.node.kind = "CreateView"
    /\ Len(issues) = 1
    /\ Len(out.node.create_options) = 1
    /\ out.node.create_options[1].type = "OrReplace"
    /\ KeywordAt(4, "SQL")
    /\ KeywordAt(5, "SECURITY")
    /\ ~KeywordAt(6, "USER")
    /\ issues[1].span = SpanAt(base, 6)

\* CREATE DEFINER = <reserved> .. ALGORITHM = MERGE TABLE t .. has returned a
\* CreateTable without modifiers and with one issue.
C25_WitnessLater ==
    /\ Returned
    /\ out.node.kind = "CreateTable"
    /\ Len(issues) = 1
    /\ out.node.create_options = <<>>
    /\ KeywordAt(2, "DEFINER")
    /\ ~PlainAt(4)
    /\ KeywordAt(7, "ALGORITHM")
    /\ KeywordAt(9, "MERGE")

====
